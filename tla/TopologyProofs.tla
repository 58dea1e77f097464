--------------------------- MODULE TopologyProofs ---------------------------
(***************************************************************************)
(* What holds of any number of clients at one broker, whatever their       *)
(* handlers, versions and retries, and wherever their connections break.   *)
(***************************************************************************)
EXTENDS Topology, MemoryCacheProofs, FiniteSetTheorems

-----------------------------------------------------------------------------
(* Sequences                                                               *)

\* The first n elements of a sequence.
LEMMA FirstPart ==
    ASSUME NEW S, NEW b \in Seq(S), NEW n \in 0..Len(b)
    PROVE  /\ SubSeq(b, 1, n) \in Seq(S) /\ Len(SubSeq(b, 1, n)) = n
           /\ \A i \in 1..n : SubSeq(b, 1, n)[i] = b[i]
OBVIOUS

\* A sequence made longer by one.
LEMMA OneLonger ==
    ASSUME NEW S, NEW b \in Seq(S), NEW x \in S
    PROVE  Append(b, x) \in Seq(S) \ {<<>>}
<1>1. Append(b, x) \in Seq(S)
    OBVIOUS
<1>2. Len(Append(b, x)) = Len(b) + 1 /\ Len(b) \in Nat
    OBVIOUS
<1>3. Len(Append(b, x)) # 0
    BY <1>2
<1>4. Len(<<>>) = 0
    OBVIOUS
<1> QED
    BY <1>1, <1>3, <1>4, Zenon

\* The partial results of Flattened, each the one before with the next sequence.
LEMMA Flattening ==
    ASSUME NEW seqs, Len(seqs) \in Nat
    PROVE  \E f : /\ Flattened(seqs) = IF Len(seqs) = 0 THEN seqs ELSE f[Len(seqs)]
                 /\ \A i \in 1..Len(seqs) : f[i] = IF i = 1 THEN seqs[i] ELSE f[i - 1] \o seqs[i]
<1> DEFINE n == Len(seqs)
           Solves(f, m) == f = [i \in 1..m |-> IF i = 1 THEN seqs[i] ELSE f[i - 1] \o seqs[i]]
           Solved == {m \in Nat : \E f : Solves(f, m)}
<1>1. 0 \in Solved
    <2>1. Solves([i \in 1..0 |-> 0], 0)
        OBVIOUS
    <2> QED
        BY <2>1, Zenon
<1>2. ASSUME NEW m \in Nat, NEW f, Solves(f, m)
      PROVE  \E g : Solves(g, m + 1)
    <2> DEFINE g == [i \in 1..m + 1 |->
                        IF i <= m THEN f[i] ELSE IF i = 1 THEN seqs[i] ELSE f[i - 1] \o seqs[i]]
    <2>1. \A i \in 1..m : f[i] = IF i = 1 THEN seqs[i] ELSE f[i - 1] \o seqs[i]
        BY <1>2, Zenon
    <2>2. ASSUME NEW i \in 1..m + 1
          PROVE  g[i] = IF i = 1 THEN seqs[i] ELSE g[i - 1] \o seqs[i]
        BY <2>1
    <2>3. g = [i \in 1..m + 1 |-> IF i = 1 THEN seqs[i] ELSE g[i - 1] \o seqs[i]]
        BY <2>2, Zenon
    <2> HIDE DEF g
    <2> QED
        BY <2>3, Zenon
<1> HIDE DEF Solves
<1>3. \E f : Solves(f, n)
    <2>1. \A m \in Nat : m \in Solved => m + 1 \in Solved
        BY <1>2
    <2>2. \A m \in Nat : m \in Solved
        <3> HIDE DEF Solved
        <3> QED
            BY <1>1, <2>1, Induction
    <2> QED
        BY <2>2
<1> DEFINE flatten == CHOOSE f : Solves(f, n)
<1>4. Solves(flatten, n)
    BY <1>3
<1>5. Flattened(seqs) = IF n = 0 THEN seqs ELSE flatten[n]
    BY DEF Flattened, Solves
<1> QED
    BY <1>4, <1>5, Zenon DEF Solves

\* A sequence after another, over sets of their own.
LEMMA Concatenation ==
    ASSUME NEW A, NEW B, NEW s \in Seq(A), NEW t \in Seq(B)
    PROVE  /\ s \o t \in Seq(A \cup B)
           /\ \A x : x \in Range(s \o t) <=> x \in Range(s) \/ x \in Range(t)
           /\ s # <<>> => s \o t # <<>>
           /\ s \in Seq(Range(s))
<1>1. s \in Seq(A \cup B) /\ t \in Seq(A \cup B)
    BY SeqMonotonic
<1>2. s \o t \in Seq(A \cup B) /\ Len(s \o t) = Len(s) + Len(t)
    BY <1>1, ConcatProperties
<1>3. Range(s \o t) = Range(s) \cup Range(t)
    BY <1>1, RangeConcatenation
<1>4. s # <<>> => s \o t # <<>>
    BY <1>1, ConcatEqualIffEmpty
<1> QED
    BY <1>2, <1>3, <1>4, SeqOfRange

-----------------------------------------------------------------------------
(* What a client declares, and in which order                              *)

\* What a client declares, as sets.
OwnQueues(s) ==
    {createQueue(s.dlqName, NoArgument, NoArgument),
     createQueue(s.queueName, s.dlqName, NoArgument)}
        \cup {q \in {createQueue(s.retryName, s.queueName, s.retryInterval \div 1000)} : s.withRetry}

OwnBinds(s) ==
    {QueueBind(s.dlqName, <<"#">>, s.dlqName), QueueBind(s.queueName, <<"#">>, s.queueName)}
        \cup {b \in {QueueBind(s.retryName, <<"#">>, s.retryName)} : s.withRetry}

HandlerBinds(c) ==
    {QueueBind(h.exchange, BindingKey(h), c.setup.queueName) : h \in c.handlers}

OwnExchanges(s) ==
    {createTopicExchange(s.exchangeName)}
        \cup {x \in {createTopicExchange(s.queueName), createTopicExchange(s.dlqName)} : s.isConsumer}
        \cup {x \in {createTopicExchange(s.retryName)} : s.isConsumer /\ s.withRetry}

HandlerExchanges(c) == {createTopicExchange(h.exchange) : h \in c.handlers}

Declarations(c) ==
    IF c.setup.isConsumer
      THEN OwnExchanges(c.setup) \cup OwnQueues(c.setup) \cup OwnBinds(c.setup)
               \cup HandlerExchanges(c) \cup HandlerBinds(c)
      ELSE OwnExchanges(c.setup)

\* What a client has declared before d: the two ends of a binding, and the way out of a
\* queue before the way into it.
Needs(c, d) ==
    LET s == c.setup
    IN  IF d.do # "bind" THEN {}
        ELSE {createTopicExchange(d.exchange)}
                 \cup {q \in OwnQueues(s) : q.name = d.queue}
                 \cup {b \in OwnBinds(s) : \/ d.queue = s.queueName /\ b.queue = s.dlqName
                                           \/ d.queue = s.retryName /\ b.queue = s.queueName}

\* Everything in the sequence comes after what it needs, which may also be in base.
Ordered(c, seq, base) ==
    \A i \in 1..Len(seq) : \A d \in Needs(c, seq[i]) :
        d \in base \/ \E j \in 1..i - 1 : seq[j] = d

\* The exchange of a client's own binding has the name of one of its queues.
LEMMA OwnBindsNamed == \A s : \A b \in OwnBinds(s) : b.exchange \in OwnNames(s)
BY DEF OwnBinds, OwnNames, QueueBind

\* Of two ordered sequences the second may rely on the first.
LEMMA OrderedConcat ==
    ASSUME NEW c, NEW D, NEW s \in Seq(D), NEW t \in Seq(D), NEW base,
           Ordered(c, s, base), Ordered(c, t, base \cup Range(s))
    PROVE  Ordered(c, s \o t, base)
<1> SUFFICES ASSUME NEW i \in 1..Len(s \o t), NEW d \in Needs(c, (s \o t)[i]), d \notin base
             PROVE  \E j \in 1..i - 1 : (s \o t)[j] = d
    BY DEF Ordered
<1>0. Len(s \o t) = Len(s) + Len(t)
    BY ConcatProperties
<1>1. CASE i <= Len(s)
    <2>1. (s \o t)[i] = s[i] /\ i \in 1..Len(s)
        BY <1>1
    <2>2. PICK j \in 1..i - 1 : s[j] = d
        BY <2>1 DEF Ordered
    <2> QED
        BY <1>1, <2>2
<1>2. CASE i > Len(s)
    <2>1. (s \o t)[i] = t[i - Len(s)] /\ i - Len(s) \in 1..Len(t)
        BY <1>0, <1>2
    <2>2. d \in Range(s) \/ \E j \in 1..(i - Len(s)) - 1 : t[j] = d
        BY <2>1 DEF Ordered
    <2>3. CASE d \in Range(s)
        <3>1. PICK j \in 1..Len(s) : s[j] = d
            BY <2>3 DEF Range
        <3> QED
            BY <1>2, <3>1
    <2>4. CASE \E j \in 1..(i - Len(s)) - 1 : t[j] = d
        <3>1. PICK j \in 1..(i - Len(s)) - 1 : t[j] = d
            BY <2>4
        <3>2. (s \o t)[j + Len(s)] = d /\ j + Len(s) \in 1..i - 1
            BY <1>2, <1>0, <3>1
        <3> QED
            BY <3>2
    <2> QED
        BY <2>2, <2>3, <2>4
<1> QED
    BY <1>1, <1>2

\* Each handler's declarations: they rely on the consumer's own, and on each other.
LEMMA HandlerOrdered ==
    ASSUME NEW c \in Clients, c.setup.isConsumer, NEW h \in c.handlers, NEW base,
           OwnQueues(c.setup) \cup OwnBinds(c.setup) \subseteq base
    PROVE  /\ bindHandlerQueue(c.setup, h) \in Seq(HandlerExchanges(c) \cup HandlerBinds(c))
           /\ Range(bindHandlerQueue(c.setup, h))
                = {createTopicExchange(h.exchange), QueueBind(h.exchange, BindingKey(h), c.setup.queueName)}
           /\ Ordered(c, bindHandlerQueue(c.setup, h), base)
<1> DEFINE s == c.setup
           x == createTopicExchange(h.exchange)
           b == QueueBind(h.exchange, BindingKey(h), s.queueName)
           D == HandlerExchanges(c) \cup HandlerBinds(c)
<1>1. bindHandlerQueue(s, h) = <<x, b>>
    BY DEF bindHandlerQueue
<1>2. x \in D /\ b \in D
    BY DEF HandlerExchanges, HandlerBinds
<1>3. Needs(c, x) = {}
    BY DEF Needs, createTopicExchange
<1>4. Needs(c, b) \subseteq {x} \cup base
    BY DEF Needs, QueueBind, createTopicExchange
<1> HIDE DEF x, b, D
<1>5. <<x, b>> \in Seq(D) /\ Range(<<x, b>>) = {x, b}
    BY <1>2 DEF Range
<1>6. Ordered(c, <<x, b>>, base)
    BY <1>3, <1>4 DEF Ordered
<1> QED
    BY <1>1, <1>5, <1>6 DEF x, b, D

\* The declarations of the handlers, in any order of them.
LEMMA HandlersOrdered ==
    ASSUME NEW c \in Clients, c.setup.isConsumer, NEW binds \in bindRegisteredHandlers(c)
    PROVE  /\ binds \in Seq(HandlerExchanges(c) \cup HandlerBinds(c))
           /\ Range(binds) = HandlerExchanges(c) \cup HandlerBinds(c)
           /\ Ordered(c, binds, OwnQueues(c.setup) \cup OwnBinds(c.setup))
<1> DEFINE n == Cardinality(c.handlers)
           Pair(h) == bindHandlerQueue(c.setup, h)
           D == HandlerExchanges(c) \cup HandlerBinds(c)
           base == OwnQueues(c.setup) \cup OwnBinds(c.setup)
<1>1. PICK order \in Orders(c.handlers) :
          binds = Flattened([i \in DOMAIN order |-> Pair(order[i])])
    BY DEF bindRegisteredHandlers
<1>2. n \in Nat /\ (n = 0 <=> c.handlers = {})
    BY NamesAssumption, FS_CardinalityType, FS_EmptySet
<1>3. order \in [1..n -> c.handlers] /\ \A i, j \in 1..n : i # j => order[i] # order[j]
    BY DEF Orders
<1>4. \A h \in c.handlers : \E i \in 1..n : order[i] = h
    <2>1. order \in Injection(1..n, c.handlers)
        BY <1>3 DEF Injection, IsInjective
    <2>2. IsFiniteSet(1..n) /\ Cardinality(1..n) = n
        BY <1>2, FS_Interval
    <2>3. order \in Surjection(1..n, c.handlers)
        BY <2>1, <2>2, NamesAssumption, FS_Injection
    <2> QED
        BY <2>3 DEF Surjection
<1> DEFINE seqs == [i \in 1..n |-> Pair(order[i])]
<1>5. /\ binds = Flattened(seqs) /\ Len(seqs) = n
      /\ \A i \in 1..n : seqs[i] = Pair(order[i])
    BY <1>1, <1>2, <1>3
<1>6. \A h \in c.handlers : /\ Pair(h) \in Seq(D)
                            /\ Range(Pair(h)) = {createTopicExchange(h.exchange),
                                     QueueBind(h.exchange, BindingKey(h), c.setup.queueName)}
    BY HandlerOrdered, Zenon
<1>7. CASE n = 0
    <2>1. binds = <<>> /\ D = {}
        BY <1>2, <1>5, <1>7 DEF Flattened, HandlerExchanges, HandlerBinds
    <2> QED
        BY <2>1 DEF Ordered, Range
<1>8. CASE n # 0
    <2>1. PICK f : /\ binds = f[n]
                   /\ \A i \in 1..n : f[i] = IF i = 1 THEN Pair(order[i])
                                                        ELSE f[i - 1] \o Pair(order[i])
        <3> HIDE DEF n, seqs, Pair
        <3>1. PICK f : /\ Flattened(seqs) = IF Len(seqs) = 0 THEN seqs ELSE f[Len(seqs)]
                       /\ \A i \in 1..Len(seqs) :
                             f[i] = IF i = 1 THEN seqs[i] ELSE f[i - 1] \o seqs[i]
            BY <1>2, <1>5, Flattening, Zenon
        <3> QED
            BY <1>2, <1>5, <1>8, <3>1
    <2> DEFINE Good(k) == /\ f[k] \in Seq(D)
                          /\ \A x : x \in Range(f[k]) <=> \E i \in 1..k : x \in Range(Pair(order[i]))
                          /\ Ordered(c, f[k], base)
               T == {k \in Nat : k + 1 <= n => Good(k + 1)}
    <2>2. Good(1)
        <3>1. f[1] = Pair(order[1]) /\ order[1] \in c.handlers
            BY <1>2, <1>3, <1>8, <2>1
        <3>2. Ordered(c, Pair(order[1]), base)
            BY <3>1, HandlerOrdered, Zenon
        <3> QED
            BY <1>6, <3>1, <3>2
    <2>3. ASSUME NEW k \in Nat, k + 2 <= n, Good(k + 1)
          PROVE  Good(k + 2)
        <3> DEFINE p == Pair(order[k + 2])
        <3>1. f[k + 2] = f[k + 1] \o p /\ order[k + 2] \in c.handlers
            <4>1. k + 2 \in 1..n /\ k + 2 # 1 /\ (k + 2) - 1 = k + 1
                BY <1>2, <2>3
            <4> HIDE DEF Pair, n
            <4> QED
                BY <1>3, <2>1, <4>1, Zenon
        <3>2. p \in Seq(D) /\ Ordered(c, p, base \cup Range(f[k + 1]))
            BY <1>6, <3>1, HandlerOrdered, Zenon
        <3> HIDE DEF base, D, p
        <3>3. f[k + 2] \in Seq(D) /\ Range(f[k + 2]) = Range(f[k + 1]) \cup Range(p)
            BY <2>3, <3>1, <3>2, ConcatProperties, RangeConcatenation
        <3>4. Ordered(c, f[k + 2], base)
            BY <2>3, <3>1, <3>2, OrderedConcat
        <3>5. 1..k + 2 = 1..k + 1 \cup {k + 2}
            OBVIOUS
        <3>6. \A x : x \in Range(f[k + 2]) <=> \E i \in 1..k + 2 : x \in Range(Pair(order[i]))
            <4> HIDE DEF Pair
            <4> QED
                BY <2>3, <3>3, <3>5 DEF p
        <3> QED
            BY <3>3, <3>4, <3>6
    <2> HIDE DEF Good
    <2>4. 0 \in T
        BY <2>2
    <2>5. \A k \in Nat : k \in T => k + 1 \in T
        BY <1>2, <2>3
    <2>6. \A k \in Nat : k \in T
        <3> HIDE DEF T
        <3> QED
            BY <2>4, <2>5, Induction
    <2>7. Good(n)
        BY <1>2, <1>8, <2>6, n - 1 \in Nat
    <2>8. \A x : x \in D <=> \E i \in 1..n : x \in Range(Pair(order[i]))
        <3>1. \A x : x \in D <=> \E h \in c.handlers : x \in Range(Pair(h))
            <4> HIDE DEF Pair
            <4> QED
                BY <1>6, Zenon DEF HandlerExchanges, HandlerBinds
        <3> HIDE DEF D, Pair, n
        <3> QED
            BY <1>3, <1>4, <3>1
    <2>9. Range(binds) = D
        <3> HIDE DEF D, Pair, n
        <3> QED
            BY <2>1, <2>7, <2>8, Zenon DEF Good
    <2> QED
        BY <2>1, <2>7, <2>9 DEF Good
<1> QED
    BY <1>7, <1>8

\* The names of two consumers' queues are equal only for the same queue.
LEMMA DistinctNames ==
    ASSUME NEW c \in Clients, NEW d \in Clients, c.setup.isConsumer, d.setup.isConsumer
    PROVE  /\ c.setup.queueName \notin {d.setup.dlqName, d.setup.retryName}
           /\ c.setup.dlqName # d.setup.retryName
           /\ c.setup.dlqName = d.setup.dlqName <=> c.setup.queueName = d.setup.queueName
           /\ c.setup.retryName = d.setup.retryName <=> c.setup.queueName = d.setup.queueName
<1> DEFINE p == c.setup.queueName
           q == d.setup.queueName
<1>1. /\ p \in Seq(STRING) /\ c.setup.dlqName = p \o <<".dlq">> /\ c.setup.retryName = p \o <<".retry">>
      /\ q \in Seq(STRING) /\ d.setup.dlqName = q \o <<".dlq">> /\ d.setup.retryName = q \o <<".retry">>
    BY NamesAssumption DEF Built
<1>2. p \notin {d.setup.dlqName, d.setup.retryName}
    BY NamesAssumption
<1> HIDE DEF p, q
<1>3. p \o <<".dlq">> # q \o <<".retry">>
    <2>1. /\ Len(p \o <<".dlq">>) = Len(p) + 1 /\ (p \o <<".dlq">>)[Len(p) + 1] = ".dlq"
          /\ Len(q \o <<".retry">>) = Len(q) + 1 /\ (q \o <<".retry">>)[Len(q) + 1] = ".retry"
        BY <1>1
    <2> QED
        BY <1>1, <2>1
<1>4. ASSUME NEW x, p \o <<x>> = q \o <<x>>
      PROVE  p = q
    <2>0. p \in Seq(STRING \cup {x}) /\ q \in Seq(STRING \cup {x}) /\ <<x>> \in Seq(STRING \cup {x})
        BY <1>1
    <2>1. Len(p) = Len(q)
        BY <1>4, <2>0, Len(p \o <<x>>) = Len(p) + 1, Len(q \o <<x>>) = Len(q) + 1
    <2>2. ASSUME NEW i \in 1..Len(p)
          PROVE  p[i] = q[i]
        BY <1>4, <2>0, <2>1, (p \o <<x>>)[i] = p[i], (q \o <<x>>)[i] = q[i]
    <2> QED
        BY <1>1, <2>1, <2>2, SeqEqual
<1>5. /\ p \o <<".dlq">> = q \o <<".dlq">> <=> p = q
      /\ p \o <<".retry">> = q \o <<".retry">> <=> p = q
    BY <1>4
<1> QED
    BY <1>1, <1>2, <1>3, <1>5, Zenon DEF p, q

\* The three parts of a consumer's own topology.
LEMMA OwnParts ==
    ASSUME NEW c \in Clients
    PROVE  LET s == c.setup
           IN  /\ createTopicExchanges(s) \in Seq(OwnExchanges(s))
               /\ Range(createTopicExchanges(s)) = OwnExchanges(s)
               /\ createTopicExchanges(s) # <<>>
               /\ createQueues(s) \in Seq(OwnQueues(s)) /\ Range(createQueues(s)) = OwnQueues(s)
               /\ bindQueues(s) \in Seq(OwnBinds(s)) /\ Range(bindQueues(s)) = OwnBinds(s)
               /\ s.isConsumer => Ordered(c, bindQueues(s), OwnExchanges(s) \cup OwnQueues(s))
<1> DEFINE s == c.setup
           x0 == createTopicExchange(s.exchangeName)
           x1 == createTopicExchange(s.queueName)
           x2 == createTopicExchange(s.dlqName)
           x3 == createTopicExchange(s.retryName)
           q1 == createQueue(s.dlqName, NoArgument, NoArgument)
           q2 == createQueue(s.queueName, s.dlqName, NoArgument)
           q3 == createQueue(s.retryName, s.queueName, s.retryInterval \div 1000)
           b1 == QueueBind(s.dlqName, <<"#">>, s.dlqName)
           b2 == QueueBind(s.queueName, <<"#">>, s.queueName)
           b3 == QueueBind(s.retryName, <<"#">>, s.retryName)
<1>1. s.isConsumer \in BOOLEAN /\ s.withRetry \in BOOLEAN
    BY NamesAssumption DEF Built
<1>2. s.isConsumer => /\ Needs(c, b1) \subseteq {x2, q1}
                      /\ Needs(c, b2) \subseteq {x1, q2, b1}
                      /\ s.withRetry => Needs(c, b3) \subseteq {x3, q3, b2}
    BY DistinctNames DEF Needs, OwnQueues, OwnBinds, createQueue, QueueBind
<1> DEFINE Retry(d) == IfRetry(s, d)
<1>3. \A d : Retry(d) \in Seq({d}) /\ Range(Retry(d)) = {e \in {d} : s.withRetry}
    BY <1>1 DEF IfRetry, Range
<1> HIDE DEF x0, x1, x2, x3, q1, q2, q3, b1, b2, b3, Retry
<1>4. createQueues(s) \in Seq(OwnQueues(s)) /\ Range(createQueues(s)) = OwnQueues(s)
    <2> DEFINE front == <<q1, q2>>
               A == {q1, q2}
               B == {q3}
    <2>1. createQueues(s) = front \o Retry(q3)
        BY DEF createQueues, q1, q2, q3, Retry
    <2>2. /\ front \in Seq(A) /\ Retry(q3) \in Seq(B)
          /\ \A x : x \in Range(front) <=> x \in A
        BY <1>3 DEF Range
    <2>3. /\ createQueues(s) \in Seq(A \cup B)
          /\ \A x : x \in Range(createQueues(s)) <=> x \in A \/ x \in Range(Retry(q3))
        <3> HIDE DEF front, A, B
        <3>1. /\ front \o Retry(q3) \in Seq(A \cup B)
              /\ \A x : x \in Range(front \o Retry(q3)) <=> x \in A \/ x \in Range(Retry(q3))
            BY <2>2, Concatenation
        <3> QED
            BY <2>1, <3>1, Zenon
    <2>4. OwnQueues(s) = {q1, q2} \cup {e \in {q3} : s.withRetry}
        BY DEF OwnQueues, q1, q2, q3
    <2> QED
        BY <1>3, <2>2, <2>3, <2>4, SeqOfRange
<1>5. /\ createTopicExchanges(s) \in Seq(OwnExchanges(s)) /\ createTopicExchanges(s) # <<>>
      /\ Range(createTopicExchanges(s)) = OwnExchanges(s)
    <2>1. CASE ~s.isConsumer
        <3>1. createTopicExchanges(s) = <<x0>> /\ OwnExchanges(s) = {x0}
            <4>1. createTopicExchanges(s) = <<x0>> \o <<>>
                BY <2>1 DEF createTopicExchanges, x0
            <4> QED
                BY <2>1, <4>1 DEF OwnExchanges, x0
        <3> QED
            BY <3>1 DEF Range
    <2>2. CASE s.isConsumer
        <3> DEFINE front == <<x0>>
                   middle == <<x1, x2>>
                   A == {x0}
                   B == {x1, x2}
                   C == {x3}
        <3>1. createTopicExchanges(s) = front \o (middle \o Retry(x3))
            BY <2>2 DEF createTopicExchanges, x0, x1, x2, x3, Retry
        <3>2. /\ front \in Seq(A) /\ front # <<>> /\ middle \in Seq(B) /\ Retry(x3) \in Seq(C)
              /\ \A x : (x \in Range(front) <=> x \in A) /\ (x \in Range(middle) <=> x \in B)
            BY <1>3 DEF Range
        <3> HIDE DEF front, middle, A, B, C
        <3>3. /\ middle \o Retry(x3) \in Seq(B \cup C)
              /\ \A x : x \in Range(middle \o Retry(x3)) <=> x \in B \/ x \in Range(Retry(x3))
            BY <3>2, Concatenation, Zenon
        <3>4. /\ createTopicExchanges(s) # <<>> /\ createTopicExchanges(s) \in Seq(A \cup (B \cup C))
              /\ \A x : x \in Range(createTopicExchanges(s)) <=> x \in A \/ x \in Range(middle \o Retry(x3))
            <4> DEFINE rest == middle \o Retry(x3)
                       R == B \cup C
            <4>1. rest \in Seq(R)
                BY <3>3
            <4> HIDE DEF rest, R
            <4>2. /\ front \o rest # <<>> /\ front \o rest \in Seq(A \cup R)
                  /\ \A x : x \in Range(front \o rest) <=> x \in A \/ x \in Range(rest)
                BY <3>2, <4>1, Concatenation, Zenon
            <4> QED
                BY <3>1, <4>2, Zenon DEF rest, R
        <3>5. OwnExchanges(s) = {x0} \cup {x1, x2} \cup {e \in {x3} : s.withRetry}
            BY <2>2 DEF OwnExchanges, x0, x1, x2, x3
        <3>6. createTopicExchanges(s) \in Seq(Range(createTopicExchanges(s)))
            BY <3>4, SeqOfRange
        <3> QED
            BY <1>3, <3>3, <3>4, <3>5, <3>6 DEF A, B
    <2> QED
        BY <1>1, <2>1, <2>2
<1>6. bindQueues(s) \in Seq(OwnBinds(s)) /\ Range(bindQueues(s)) = OwnBinds(s)
    <2> DEFINE front == <<b1, b2>>
               A == {b1, b2}
               B == {b3}
    <2>1. bindQueues(s) = front \o Retry(b3)
        BY DEF bindQueues, b1, b2, b3, Retry
    <2>2. /\ front \in Seq(A) /\ Retry(b3) \in Seq(B)
          /\ \A x : x \in Range(front) <=> x \in A
        BY <1>3 DEF Range
    <2>3. /\ bindQueues(s) \in Seq(A \cup B)
          /\ \A x : x \in Range(bindQueues(s)) <=> x \in A \/ x \in Range(Retry(b3))
        <3> HIDE DEF front, A, B
        <3>1. /\ front \o Retry(b3) \in Seq(A \cup B)
              /\ \A x : x \in Range(front \o Retry(b3)) <=> x \in A \/ x \in Range(Retry(b3))
            BY <2>2, Concatenation
        <3> QED
            BY <2>1, <3>1, Zenon
    <2>4. OwnBinds(s) = {b1, b2} \cup {e \in {b3} : s.withRetry}
        BY DEF OwnBinds, b1, b2, b3
    <2> QED
        BY <1>3, <2>2, <2>3, <2>4, SeqOfRange
<1>7. ASSUME s.isConsumer
      PROVE  Ordered(c, bindQueues(s), OwnExchanges(s) \cup OwnQueues(s))
    <2> DEFINE base == OwnExchanges(s) \cup OwnQueues(s)
    <2>1. {x1, x2, q1, q2} \subseteq base /\ (s.withRetry => {x3, q3} \subseteq base)
        BY <1>7 DEF OwnExchanges, OwnQueues, x1, x2, x3, q1, q2, q3
    <2> HIDE DEF base
    <2>2. Ordered(c, <<b1, b2>>, base)
        BY <1>2, <1>7, <2>1 DEF Ordered
    <2>3. Ordered(c, Retry(b3), base \cup Range(<<b1, b2>>))
        BY <1>1, <1>2, <1>7, <2>1 DEF Ordered, Retry, IfRetry, Range
    <2>4. bindQueues(s) = <<b1, b2>> \o Retry(b3)
        BY DEF bindQueues, b1, b2, b3, Retry
    <2>5. <<b1, b2>> \in Seq({b1, b2, b3}) /\ Retry(b3) \in Seq({b1, b2, b3})
        <3>1. CASE s.withRetry
            BY <3>1, Retry(b3) = <<b3>> DEF Retry, IfRetry
        <3>2. CASE ~s.withRetry
            BY <3>2, Retry(b3) = <<>> DEF Retry, IfRetry
        <3> QED
            BY <1>1, <3>1, <3>2
    <2> DEFINE front == <<b1, b2>>
               D == {b1, b2, b3}
    <2> HIDE DEF front, D
    <2>6. Ordered(c, front \o Retry(b3), base)
        BY <2>2, <2>3, <2>5, OrderedConcat, Zenon DEF front, D
    <2> QED
        BY <2>4, <2>6 DEF base, front
<1> QED
    BY <1>4, <1>5, <1>6, <1>7

\* What may be relied on may grow.
LEMMA OrderedMore ==
    ASSUME NEW c, NEW seq, NEW base, NEW more, Ordered(c, seq, base), base \subseteq more
    PROVE  Ordered(c, seq, more)
BY DEF Ordered

\* Exchanges and queues rely on nothing.
LEMMA OrderedFree ==
    ASSUME NEW c, NEW D, NEW seq \in Seq(D), \A d \in D : d.do # "bind"
    PROVE  Ordered(c, seq, {})
<1>1. \A i \in 1..Len(seq) : seq[i] \in D
    OBVIOUS
<1>2. \A d \in D : Needs(c, d) = {}
    BY DEF Needs
<1> QED
    BY <1>1, <1>2 DEF Ordered

\* Every order in which a client may declare its topology is complete, and good.
LEMMA TopologyOrdered ==
    ASSUME NEW c \in Clients, NEW declarations \in applyTopology(c)
    PROVE  /\ declarations \in Seq(Declarations(c)) /\ declarations # <<>>
           /\ \A x : x \in Range(declarations) <=> x \in Declarations(c)
           /\ Ordered(c, declarations, {})
<1> DEFINE s == c.setup
           xs == createTopicExchanges(s)
           qs == createQueues(s)
           bs == bindQueues(s)
           X == OwnExchanges(s)
           Q == OwnQueues(s)
           B == OwnBinds(s)
           H == HandlerExchanges(c) \cup HandlerBinds(c)
<1>1. /\ xs \in Seq(X) /\ Range(xs) = X /\ xs # <<>>
      /\ qs \in Seq(Q) /\ Range(qs) = Q
      /\ bs \in Seq(B) /\ Range(bs) = B
      /\ s.isConsumer => Ordered(c, bs, X \cup Q)
    BY OwnParts, Zenon
<1>2. /\ \A d \in X : d.do # "bind"
      /\ \A d \in Q : d.do # "bind"
    BY DEF OwnExchanges, OwnQueues, createTopicExchange, createQueue
<1>3. Ordered(c, xs, {}) /\ Ordered(c, qs, {})
    BY <1>1, <1>2, OrderedFree
<1>4. s.isConsumer \in BOOLEAN
    BY NamesAssumption DEF Built
<1>5. CASE ~s.isConsumer
    <2>1. declarations = xs /\ Declarations(c) = X
        BY <1>5 DEF applyTopology, Declarations
    <2> HIDE DEF xs, X
    <2> QED
        BY <1>1, <1>3, <2>1
<1>6. CASE s.isConsumer
    <2>1. PICK binds \in bindRegisteredHandlers(c) : declarations = xs \o qs \o bs \o binds
        BY <1>6 DEF applyTopology
    <2>2. binds \in Seq(H) /\ Range(binds) = H /\ Ordered(c, binds, Q \cup B)
        BY <1>6, <2>1, HandlersOrdered, Zenon
    <2> DEFINE D == Declarations(c)
    <2>3. D = X \cup Q \cup B \cup H
        BY <1>6 DEF Declarations
    <2> HIDE DEF s, xs, qs, bs, X, Q, B, H, D
    <2>4. xs \in Seq(D) /\ qs \in Seq(D) /\ bs \in Seq(D) /\ binds \in Seq(D)
        BY <1>1, <2>2, <2>3, SeqMonotonic
    <2> DEFINE one == xs \o qs
               two == one \o bs
               all == two \o binds
    <2>5. /\ one \in Seq(D) /\ one # <<>> /\ Ordered(c, one, {})
          /\ \A x : x \in Range(one) <=> x \in X \cup Q
        <3>1. Ordered(c, qs, {} \cup Range(xs))
            BY <1>3, OrderedMore
        <3>2. Ordered(c, one, {})
            BY <1>3, <2>4, <3>1, OrderedConcat
        <3>3. one \in Seq(D \cup D) /\ one # <<>> /\ \A x : x \in Range(one) <=> x \in Range(xs) \/ x \in Range(qs)
            BY <1>1, <2>4, Concatenation
        <3> QED
            BY <1>1, <3>2, <3>3, D \cup D = D
    <2> HIDE DEF one
    <2>6. /\ two \in Seq(D) /\ two # <<>> /\ Ordered(c, two, {})
          /\ \A x : x \in Range(two) <=> x \in X \cup Q \cup B
        <3>1. Ordered(c, bs, {} \cup Range(one))
            BY <1>1, <1>6, <2>5, OrderedMore
        <3>2. Ordered(c, two, {})
            BY <2>4, <2>5, <3>1, OrderedConcat
        <3>3. two \in Seq(D \cup D) /\ two # <<>> /\ \A x : x \in Range(two) <=> x \in Range(one) \/ x \in Range(bs)
            BY <2>4, <2>5, Concatenation
        <3> QED
            BY <1>1, <2>5, <3>2, <3>3, D \cup D = D
    <2> HIDE DEF two
    <2>7. /\ all \in Seq(D) /\ all # <<>> /\ Ordered(c, all, {})
          /\ \A x : x \in Range(all) <=> x \in D
        <3>1. Ordered(c, binds, {} \cup Range(two))
            BY <2>2, <2>6, OrderedMore
        <3>2. Ordered(c, all, {})
            BY <2>4, <2>6, <3>1, OrderedConcat
        <3>3. all \in Seq(D \cup D) /\ all # <<>> /\ \A x : x \in Range(all) <=> x \in Range(two) \/ x \in Range(binds)
            BY <2>4, <2>6, Concatenation
        <3> QED
            BY <2>2, <2>3, <2>6, <3>2, <3>3, D \cup D = D
    <2> QED
        BY <2>1, <2>7 DEF one, two, D
<1> QED
    BY <1>4, <1>5, <1>6

-----------------------------------------------------------------------------
(* The broker and its clients                                              *)

\* What the broker has, as declarations.
Present ==
    {createTopicExchange(x) : x \in broker.exchanges} \cup broker.queues \cup broker.bindings

AllDeclarations == UNION {Declarations(c) : c \in Clients}

\* A client that is declaring has the rest of its topology before it, in order.
Pending(c) ==
    todo[c] # <<>> =>
        /\ c \in started
        /\ \A i \in 1..Len(todo[c]) : todo[c][i] \in Declarations(c)
        /\ \A d \in Declarations(c) : d \in Present \/ d \in Range(todo[c])
        /\ Ordered(c, todo[c], Present)

\* What the broker has, some client that has started declared after what it needs.
Declarer(d) == \E c \in started : d \in Declarations(c) /\ Needs(c, d) \subseteq Present

\* The broker has another version of one of the client's queues.
Conflict(c) ==
    \E d \in Declarations(c), q \in broker.queues : d.do = "queue" /\ q.name = d.name /\ q # d

TopologyInv ==
    /\ broker = [exchanges |-> broker.exchanges, queues |-> broker.queues, bindings |-> broker.bindings]
    /\ todo \in [Clients -> Seq(AllDeclarations)]
    /\ started \subseteq Clients /\ accepted \subseteq started /\ refused \subseteq started
    /\ \A q \in broker.queues : q.do = "queue"
    /\ \A b \in broker.bindings : b.do = "bind"
    /\ \A q, r \in broker.queues : q.name = r.name => q = r
    /\ \A d \in Present : Declarer(d)
    /\ \A c \in started : validate(c.setup)
    /\ \A c \in Clients : Pending(c)
    /\ \A c \in accepted : Declarations(c) \subseteq Present
    /\ \A c \in refused : Conflict(c)

\* The three kinds of declarations.
LEMMA Kinds ==
    ASSUME NEW c \in Clients, NEW d \in Declarations(c)
    PROVE  /\ d.do \in {"exchange", "queue", "bind"}
           /\ d.do = "exchange" => d = createTopicExchange(d.name)
           /\ d.do = "queue" => c.setup.isConsumer /\ d \in OwnQueues(c.setup)
           /\ d.do = "bind" => /\ c.setup.isConsumer
                               /\ d \in OwnBinds(c.setup) \/ d \in HandlerBinds(c)
                               /\ \E q \in OwnQueues(c.setup) : q.name = d.queue
<1>1. /\ \A x \in OwnExchanges(c.setup) \cup HandlerExchanges(c) :
            x.do = "exchange" /\ x = createTopicExchange(x.name)
      /\ \A x \in OwnQueues(c.setup) : x.do = "queue"
      /\ \A x \in OwnBinds(c.setup) \cup HandlerBinds(c) : x.do = "bind"
    BY DEF OwnExchanges, HandlerExchanges, OwnQueues, OwnBinds, HandlerBinds,
           createTopicExchange, createQueue, QueueBind
<1>2. \A x \in OwnBinds(c.setup) \cup HandlerBinds(c) : \E q \in OwnQueues(c.setup) : q.name = x.queue
    <2> DEFINE s == c.setup
               q1 == createQueue(s.dlqName, NoArgument, NoArgument)
               q2 == createQueue(s.queueName, s.dlqName, NoArgument)
               q3 == createQueue(s.retryName, s.queueName, s.retryInterval \div 1000)
    <2>1. /\ q1.name = s.dlqName /\ q2.name = s.queueName /\ q3.name = s.retryName
          /\ q1 \in OwnQueues(s) /\ q2 \in OwnQueues(s) /\ (s.withRetry => q3 \in OwnQueues(s))
        BY DEF OwnQueues, createQueue
    <2>2. \A x \in OwnBinds(s) \cup HandlerBinds(c) :
              x.queue \in {s.dlqName, s.queueName} \/ (s.withRetry /\ x.queue = s.retryName)
        BY DEF OwnBinds, HandlerBinds, QueueBind
    <2> HIDE DEF q1, q2, q3
    <2> QED
        BY <2>1, <2>2
<1>3. c.setup.isConsumer \in BOOLEAN
    BY NamesAssumption DEF Built
<1> QED
    BY <1>1, <1>2, <1>3 DEF Declarations

\* An accepted declaration is added to what the broker has.
LEMMA DeclaredIsPresent ==
    ASSUME TopologyInv, NEW c \in Clients, NEW d \in Declarations(c), broker' = Declared(d)
    PROVE  /\ broker' = [exchanges |-> broker'.exchanges, queues |-> broker'.queues,
                         bindings |-> broker'.bindings]
           /\ \A x : x \in Present' <=> x \in Present \/ x = d
           /\ \A x : x \in broker'.queues <=> x \in broker.queues \/ (x = d /\ d.do = "queue")
           /\ \A x : x \in broker'.bindings <=> x \in broker.bindings \/ (x = d /\ d.do = "bind")
<1>1. broker = [exchanges |-> broker.exchanges, queues |-> broker.queues, bindings |-> broker.bindings]
    BY DEF TopologyInv
<1>2. CASE d.do = "exchange"
    <2>1. broker' = [exchanges |-> broker.exchanges \cup {d.name}, queues |-> broker.queues,
                     bindings |-> broker.bindings]
        BY <1>1, <1>2 DEF Declared
    <2>2. d = createTopicExchange(d.name)
        BY <1>2, Kinds
    <2>3. \A x : x \in Present' <=> x \in Present \/ x = d
        BY <2>1, <2>2 DEF Present
    <2> QED
        BY <1>2, <2>1, <2>3
<1>3. CASE d.do = "queue"
    <2>1. broker' = [exchanges |-> broker.exchanges, queues |-> broker.queues \cup {d},
                     bindings |-> broker.bindings]
        BY <1>1, <1>3 DEF Declared
    <2> QED
        BY <1>3, <2>1 DEF Present
<1>4. CASE d.do = "bind"
    <2>1. broker' = [exchanges |-> broker.exchanges, queues |-> broker.queues,
                     bindings |-> broker.bindings \cup {d}]
        BY <1>1, <1>4 DEF Declared
    <2> QED
        BY <1>4, <2>1 DEF Present
<1> QED
    BY <1>2, <1>3, <1>4, Kinds

\* What a client that is not served in this step can rely on only grows.
LEMMA PendingFrame ==
    ASSUME NEW c \in Clients, Pending(c), todo'[c] = todo[c],
           started \subseteq started', Present \subseteq Present'
    PROVE  Pending(c)'
BY OrderedMore DEF Pending

\* A client takes the next step of its topology.
LEMMA DeclareNextInv ==
    ASSUME TopologyInv, NEW c \in Clients, DeclareNext(c)
    PROVE  TopologyInv'
<1> DEFINE seq == todo[c]
           h == Head(todo[c])
           D == Declarations(c)
<1>1. /\ todo \in [Clients -> Seq(AllDeclarations)] /\ seq \in Seq(AllDeclarations) /\ seq # <<>>
      /\ todo' = [todo EXCEPT ![c] = Tail(seq)] /\ broker' = Declared(h) /\ Accepts(h)
      /\ accepted' = IF Len(seq) = 1 THEN accepted \cup {c} ELSE accepted
      /\ started' = started /\ refused' = refused
    BY DEF TopologyInv, DeclareNext
<1>2. /\ Len(seq) \in Nat \ {0} /\ h = seq[1]
      /\ Len(Tail(seq)) = Len(seq) - 1
      /\ \A i \in 1..Len(seq) - 1 : Tail(seq)[i] = seq[i + 1]
      /\ Tail(seq) \in Seq(AllDeclarations)
    BY <1>1
<1>3. /\ c \in started
      /\ \A i \in 1..Len(seq) : seq[i] \in D
      /\ \A d \in D : d \in Present \/ d \in Range(seq)
      /\ Ordered(c, seq, Present)
    BY <1>1 DEF TopologyInv, Pending
<1>4. h \in D /\ Needs(c, h) \subseteq Present
    <2>1. 1 \in 1..Len(seq) /\ 1..1 - 1 = {}
        BY <1>2
    <2> QED
        BY <1>2, <1>3, <2>1 DEF Ordered
<1>5. /\ broker' = [exchanges |-> broker'.exchanges, queues |-> broker'.queues,
                    bindings |-> broker'.bindings]
      /\ \A x : x \in Present' <=> x \in Present \/ x = h
      /\ \A x : x \in broker'.queues <=> x \in broker.queues \/ (x = h /\ h.do = "queue")
      /\ \A x : x \in broker'.bindings <=> x \in broker.bindings \/ (x = h /\ h.do = "bind")
    BY <1>1, <1>4, DeclaredIsPresent
<1>6. todo' \in [Clients -> Seq(AllDeclarations)] /\ todo'[c] = Tail(seq)
      /\ \A e \in Clients : e # c => todo'[e] = todo[e]
    BY <1>1, <1>2
<1> HIDE DEF seq, h, D
<1>7. Pending(c)'
    <2>1. \A i \in 1..Len(Tail(seq)) : Tail(seq)[i] \in D
        BY <1>2, <1>3
    <2>2. ASSUME NEW d \in D
          PROVE  d \in Present' \/ d \in Range(Tail(seq))
        <3>1. CASE d \in Range(seq) /\ d # h
            <4>1. PICK i \in 1..Len(seq) : seq[i] = d
                BY <3>1, <1>1 DEF Range
            <4>2. i - 1 \in 1..Len(Tail(seq)) /\ Tail(seq)[i - 1] = d
                BY <1>2, <3>1, <4>1
            <4>3. DOMAIN Tail(seq) = 1..Len(Tail(seq))
                BY <1>2
            <4> QED
                BY <4>2, <4>3, Zenon DEF Range
        <3> QED
            BY <1>3, <1>5, <3>1
    <2>3. ASSUME NEW i \in 1..Len(Tail(seq)), NEW d \in Needs(c, Tail(seq)[i]), d \notin Present'
          PROVE  \E j \in 1..i - 1 : Tail(seq)[j] = d
        <3>1. i + 1 \in 1..Len(seq) /\ Tail(seq)[i] = seq[i + 1] /\ d \notin Present /\ d # h
            BY <1>2, <1>5, <2>3
        <3>2. PICK j \in 1..(i + 1) - 1 : seq[j] = d
            BY <1>3, <2>3, <3>1 DEF Ordered
        <3>3. j - 1 \in 1..i - 1 /\ Tail(seq)[j - 1] = d
            BY <1>2, <3>1, <3>2
        <3> QED
            BY <3>3
    <2>4. Ordered(c, Tail(seq), Present')
        BY <2>3 DEF Ordered
    <2> QED
        BY <1>1, <1>3, <1>6, <2>1, <2>2, <2>4 DEF Pending, D
<1>8. \A e \in Clients : Pending(e)'
    BY <1>1, <1>5, <1>6, <1>7, PendingFrame, Zenon DEF TopologyInv
<1>9. \A d \in Present' : Declarer(d)'
    <2>1. ASSUME NEW d, Declarer(d)
          PROVE  Declarer(d)'
        BY <1>1, <1>5, <2>1 DEF Declarer
    <2>2. ASSUME NEW d, d = h
          PROVE  Declarer(d)'
        BY <1>1, <1>3, <1>4, <1>5, <2>2 DEF Declarer, D
    <2> QED
        BY <1>5, <2>1, <2>2 DEF TopologyInv
<1>10. \A q, r \in broker'.queues : q.name = r.name => q = r
    <2>1. h.do = "queue" => \A q \in broker.queues : q.name = h.name => q = h
        BY <1>1 DEF Accepts
    <2> QED
        BY <1>5, <2>1 DEF TopologyInv
<1>11. \A e \in accepted' : Declarations(e) \subseteq Present'
    <2>1. ASSUME Len(seq) = 1
          PROVE  D \subseteq Present'
        BY <1>1, <1>2, <1>3, <1>5, <2>1 DEF Range
    <2> QED
        BY <1>1, <1>5, <2>1 DEF TopologyInv, D
<1>12. \A e \in refused' : Conflict(e)'
    BY <1>1, <1>5 DEF TopologyInv, Conflict
<1> QED
    BY <1>1, <1>3, <1>5, <1>6, <1>8, <1>9, <1>10, <1>11, <1>12 DEF TopologyInv

\* What comes in order is refused only because of another version's queue.
LEMMA RefusedByConflict ==
    ASSUME TopologyInv, NEW c \in started, NEW d \in Declarations(c), Needs(c, d) \subseteq Present
    PROVE  Accepts(d) \/ (d.do = "queue" /\ \E q \in broker.queues : q.name = d.name /\ q # d)
<1>1. c \in Clients /\ validate(c.setup)
    BY DEF TopologyInv
<1>2. CASE d.do = "exchange"
    BY <1>2 DEF Accepts
<1>3. CASE d.do = "queue"
    <2>1. d.ttl # NoArgument => d.ttl >= 0
        <3>1. d \in OwnQueues(c.setup)
            BY <1>1, <1>3, Kinds
        <3>2. CASE d.ttl # NoArgument
            <4>1. c.setup.withRetry /\ d.ttl = c.setup.retryInterval \div 1000
                BY <3>1, <3>2 DEF OwnQueues, createQueue
            <4>2. c.setup.retryInterval \in Int /\ c.setup.retryInterval > 0
                BY <1>1, <4>1, NamesAssumption DEF validate, Built
            <4> QED
                BY <4>1, <4>2
        <3> QED
            BY <3>2
    <2> QED
        BY <1>3, <2>1 DEF Accepts
<1>4. CASE d.do = "bind"
    <2>1. PICK q \in OwnQueues(c.setup) : q.name = d.queue
        BY <1>1, <1>4, Kinds
    <2>2. createTopicExchange(d.exchange) \in Present /\ q \in Present
        BY <1>4, <2>1 DEF Needs
    <2>3. createTopicExchange(d.exchange).do = "exchange" /\ q.do = "queue"
          /\ createTopicExchange(d.exchange).name = d.exchange
        BY <2>1 DEF createTopicExchange, OwnQueues, createQueue
    <2>4. q \in broker.queues
        BY <2>2, <2>3 DEF Present, TopologyInv, createTopicExchange
    <2>5. d.exchange \in broker.exchanges
        BY <2>2, <2>3, Zenon DEF Present, TopologyInv, createTopicExchange
    <2> QED
        BY <1>4, <2>1, <2>4, <2>5 DEF Accepts
<1> QED
    BY <1>1, <1>2, <1>3, <1>4, Kinds

\* TopologyInv is inductive: it holds at first, and every step of a client keeps it.
THEOREM TopologyInductive == TopologySpec => []TopologyInv
<1>1. TopologyInit => TopologyInv
    <2> SUFFICES ASSUME TopologyInit PROVE TopologyInv
        OBVIOUS
    <2>1. Present = {}
        BY DEF TopologyInit, Empty, Present
    <2>2. \A c \in Clients : todo[c] = <<>>
        BY DEF TopologyInit
    <2> QED
        BY <2>1, <2>2 DEF TopologyInit, Empty, TopologyInv, Pending
<1>2. TopologyInv /\ [TopologyNext]_topology => TopologyInv'
    <2> SUFFICES ASSUME TopologyInv, [TopologyNext]_topology
                 PROVE  TopologyInv'
        OBVIOUS
    <2>1. CASE UNCHANGED topology
        <3>1. /\ broker' = broker /\ todo' = todo /\ started' = started
              /\ accepted' = accepted /\ refused' = refused
            BY <2>1 DEF topology
        <3>2. Present' = Present
            BY <3>1 DEF Present
        <3>3. \A c \in Clients : Pending(c)'
            BY <3>1, <3>2, PendingFrame DEF TopologyInv
        <3>4. /\ \A d \in Present' : Declarer(d)'
              /\ \A c \in refused' : Conflict(c)'
            BY <3>1, <3>2 DEF TopologyInv, Declarer, Conflict
        <3> QED
            BY <3>1, <3>2, <3>3, <3>4 DEF TopologyInv
    <2>2. ASSUME NEW c \in Clients, Dial(c)
          PROVE  TopologyInv'
        <3>1. PICK declarations \in applyTopology(c) : todo' = [todo EXCEPT ![c] = declarations]
            BY <2>2, Zenon DEF Dial
        <3>2. /\ todo \in [Clients -> Seq(AllDeclarations)] /\ started' = started \cup {c} /\ validate(c.setup)
              /\ broker' = broker /\ accepted' = accepted /\ refused' = refused
            BY <2>2 DEF Dial, TopologyInv
        <3>3. Present' = Present
            BY <3>2 DEF Present
        <3>4. /\ declarations \in Seq(Declarations(c)) /\ declarations # <<>>
              /\ \A x : x \in Range(declarations) <=> x \in Declarations(c)
              /\ Ordered(c, declarations, Present)
            BY TopologyOrdered, OrderedMore
        <3>5. declarations \in Seq(AllDeclarations)
            BY <3>4, SeqMonotonic DEF AllDeclarations
        <3>6. /\ todo' \in [Clients -> Seq(AllDeclarations)] /\ todo'[c] = declarations
              /\ \A e \in Clients : e # c => todo'[e] = todo[e]
            BY <3>1, <3>2, <3>5
        <3>7. Pending(c)'
            BY <3>2, <3>3, <3>4, <3>6 DEF Pending
        <3>8. \A e \in Clients : Pending(e)'
            BY <3>2, <3>3, <3>6, <3>7, PendingFrame DEF TopologyInv
        <3>9. \A d \in Present' : Declarer(d)'
            BY <3>2, <3>3 DEF TopologyInv, Declarer
        <3>10. \A e \in refused' : Conflict(e)'
            BY <3>2 DEF TopologyInv, Conflict
        <3> QED
            BY <3>2, <3>3, <3>6, <3>8, <3>9, <3>10 DEF TopologyInv
    <2>3. ASSUME NEW c \in Clients, DeclareNext(c)
          PROVE  TopologyInv'
        BY <2>3, DeclareNextInv
    <2>4. ASSUME NEW c \in Clients, todo' = [todo EXCEPT ![c] = <<>>],
                 broker' = broker, started' = started, accepted' = accepted,
                 \/ refused' = refused
                 \/ c \in started /\ Conflict(c) /\ refused' = refused \cup {c}
          PROVE  TopologyInv'
        <3>1. Present' = Present
            BY <2>4 DEF Present
        <3>2. /\ todo' \in [Clients -> Seq(AllDeclarations)] /\ todo'[c] = <<>>
              /\ \A e \in Clients : e # c => todo'[e] = todo[e]
            BY <2>4 DEF TopologyInv
        <3>3. \A e \in Clients : Pending(e)'
            <4>1. Pending(c)'
                BY <3>2 DEF Pending
            <4> QED
                BY <2>4, <3>1, <3>2, <4>1, PendingFrame DEF TopologyInv
        <3>4. \A d \in Present' : Declarer(d)'
            BY <2>4, <3>1 DEF TopologyInv, Declarer
        <3>5. \A e \in refused' : Conflict(e)'
            BY <2>4 DEF TopologyInv, Conflict
        <3> QED
            BY <2>4, <3>1, <3>2, <3>3, <3>4, <3>5 DEF TopologyInv
    <2>5. ASSUME NEW c \in Clients, Rejected(c)
          PROVE  TopologyInv'
        <3>1. /\ c \in started /\ Head(todo[c]) \in Declarations(c)
              /\ Needs(c, Head(todo[c])) \subseteq Present
            <4>1. todo[c] \in Seq(AllDeclarations) /\ todo[c] # <<>>
                BY <2>5 DEF Rejected, TopologyInv
            <4>2. Head(todo[c]) = todo[c][1] /\ 1 \in 1..Len(todo[c]) /\ 1..1 - 1 = {}
                BY <4>1
            <4> QED
                BY <4>1, <4>2 DEF TopologyInv, Pending, Ordered
        <3>2. Conflict(c)
            BY <2>5, <3>1, RefusedByConflict DEF Rejected, Conflict
        <3> QED
            BY <2>4, <2>5, <3>1, <3>2, Zenon DEF Rejected
    <2>6. ASSUME NEW c \in Clients, ConnectionLost(c)
          PROVE  TopologyInv'
        BY <2>4, <2>6, Zenon DEF ConnectionLost
    <2> QED
        BY <2>1, <2>2, <2>3, <2>5, <2>6 DEF TopologyNext
<1> QED
    BY <1>1, <1>2, PTL DEF TopologySpec

-----------------------------------------------------------------------------
(* What the broker answers                                                 *)

\* What is present is accepted again, and changes nothing.
LEMMA PresentIsAccepted ==
    ASSUME TopologyInv, NEW c \in started, NEW d \in Declarations(c), Needs(c, d) \subseteq Present, d \in Present
    PROVE  Accepts(d) /\ Declared(d) = broker
<1>1. /\ broker = [exchanges |-> broker.exchanges, queues |-> broker.queues, bindings |-> broker.bindings]
      /\ c \in Clients
    BY DEF TopologyInv
<1>2. /\ d.do \in {"exchange", "queue", "bind"}
      /\ d.do = "exchange" => d.name \in broker.exchanges
      /\ d.do = "queue" => d \in broker.queues
      /\ d.do = "bind" => d \in broker.bindings
    BY <1>1, Kinds DEF Present, TopologyInv, createTopicExchange
<1>3. Declared(d) = broker
    <2>1. CASE d.do = "exchange"
        BY <1>1, <1>2, <2>1, broker.exchanges \cup {d.name} = broker.exchanges DEF Declared
    <2>2. CASE d.do = "queue"
        BY <1>1, <1>2, <2>2, broker.queues \cup {d} = broker.queues DEF Declared
    <2>3. CASE d.do = "bind"
        BY <1>1, <1>2, <2>3, broker.bindings \cup {d} = broker.bindings DEF Declared
    <2> QED
        BY <1>2, <2>1, <2>2, <2>3
<1>4. Accepts(d)
    BY <1>2, RefusedByConflict DEF TopologyInv
<1> QED
    BY <1>3, <1>4

\* A client declares itself what it needs.
LEMMA NeedsDeclared ==
    ASSUME NEW c \in Clients, NEW d \in Declarations(c)
    PROVE  Needs(c, d) \subseteq Declarations(c)
<1> DEFINE s == c.setup
<1>1. CASE d.do = "bind"
    <2>1. s.isConsumer /\ (d \in OwnBinds(s) \/ d \in HandlerBinds(c))
        BY <1>1, Kinds
    <2>2. d \in OwnBinds(s) => createTopicExchange(d.exchange) \in OwnExchanges(s)
        BY <2>1 DEF OwnBinds, OwnExchanges, QueueBind
    <2>3. d \in HandlerBinds(c) => createTopicExchange(d.exchange) \in HandlerExchanges(c)
        BY DEF HandlerBinds, HandlerExchanges, QueueBind
    <2> QED
        BY <2>1, <2>2, <2>3 DEF Needs, Declarations
<1>2. CASE d.do # "bind"
    BY <1>2 DEF Needs
<1> QED
    BY <1>1, <1>2

\* Two queues of the same name are of the same kind, and equal for equal setups.
LEMMA SameQueue ==
    ASSUME NEW c \in Clients, NEW e \in Clients, c.setup.isConsumer, e.setup.isConsumer,
           NEW d \in OwnQueues(c.setup), NEW q \in OwnQueues(e.setup), q.name = d.name
    PROVE  /\ e.setup.queueName = c.setup.queueName
           /\ e.setup = c.setup => q = d
<1>1. /\ d.name = c.setup.dlqName => d = createQueue(c.setup.dlqName, NoArgument, NoArgument)
      /\ d.name = c.setup.queueName => d = createQueue(c.setup.queueName, c.setup.dlqName, NoArgument)
      /\ d.name = c.setup.retryName => d = createQueue(c.setup.retryName, c.setup.queueName, c.setup.retryInterval \div 1000)
      /\ d.name \in {c.setup.dlqName, c.setup.queueName, c.setup.retryName}
    BY DistinctNames DEF OwnQueues, createQueue
<1>2. /\ q.name = e.setup.dlqName => q = createQueue(e.setup.dlqName, NoArgument, NoArgument)
      /\ q.name = e.setup.queueName => q = createQueue(e.setup.queueName, e.setup.dlqName, NoArgument)
      /\ q.name = e.setup.retryName => q = createQueue(e.setup.retryName, e.setup.queueName, e.setup.retryInterval \div 1000)
      /\ q.name \in {e.setup.dlqName, e.setup.queueName, e.setup.retryName}
    BY DistinctNames DEF OwnQueues, createQueue
<1>3. e.setup.queueName = c.setup.queueName
    BY <1>1, <1>2, DistinctNames
<1>4. e.setup = c.setup => q = d
    BY <1>1, <1>2
<1> QED
    BY <1>3, <1>4

\* The answer to a topology is the same on every attempt: an accepted client is never
\* refused, and finds what it declared (rabbitmq.go:306-308, 628-640, 729-740).
THEOREM AnswerIsFinal == TopologySpec => []VerdictStands
<1>1. TopologyInv => VerdictStands
    <2> SUFFICES ASSUME TopologyInv PROVE VerdictStands
        OBVIOUS
    <2>1. accepted \cap refused = {}
        <3> SUFFICES ASSUME NEW c \in accepted, c \in refused PROVE FALSE
            OBVIOUS
        <3>1. PICK d \in Declarations(c), q \in broker.queues : d.do = "queue" /\ q.name = d.name /\ q # d
            BY DEF TopologyInv, Conflict
        <3>2. d \in Present
            BY DEF TopologyInv
        <3>3. d \in broker.queues
            BY <3>1, <3>2 DEF Present, TopologyInv, createTopicExchange
        <3> QED
            BY <3>1, <3>3 DEF TopologyInv
    <2>2. ASSUME NEW c \in accepted, NEW declarations \in applyTopology(c), NEW d \in Range(declarations)
          PROVE  Accepts(d) /\ Declared(d) = broker
        <3>1. c \in started /\ c \in Clients /\ Declarations(c) \subseteq Present
            BY DEF TopologyInv
        <3>2. d \in Declarations(c)
            BY <3>1, TopologyOrdered
        <3>3. Needs(c, d) \subseteq Present
            BY <3>1, <3>2, NeedsDeclared
        <3> QED
            BY <3>1, <3>2, <3>3, PresentIsAccepted
    <2> QED
        BY <2>1, <2>2 DEF VerdictStands
<1> QED
    BY <1>1, TopologyInductive, PTL

\* A valid setup is refused only because another version declares the same queue
\* otherwise (rabbitmq.go:133-156).
THEOREM OnlyVersionsCollide == TopologySpec => []ValidIsAccepted
<1>1. TopologyInv => ValidIsAccepted
    <2> SUFFICES ASSUME TopologyInv, NEW c \in refused
                 PROVE  \E e \in started : e.setup.queueName = c.setup.queueName /\ e.setup # c.setup
        BY DEF ValidIsAccepted
    <2>1. PICK d \in Declarations(c), q \in broker.queues : d.do = "queue" /\ q.name = d.name /\ q # d
        BY DEF TopologyInv, Conflict
    <2>2. q \in Present /\ q.do = "queue"
        BY DEF Present, TopologyInv
    <2>3. PICK e \in started : q \in Declarations(e)
        BY <2>2 DEF TopologyInv, Declarer
    <2>4. /\ c \in Clients /\ c.setup.isConsumer /\ d \in OwnQueues(c.setup)
          /\ e \in Clients /\ e.setup.isConsumer /\ q \in OwnQueues(e.setup)
        BY <2>1, <2>2, <2>3, Kinds DEF TopologyInv
    <2> QED
        BY <2>1, <2>4, SameQueue
<1> QED
    BY <1>1, TopologyInductive, PTL

-----------------------------------------------------------------------------
(* Words of a key                                                          *)

\* Characters; the ones the code itself writes are named for the provers.
Char == STRING \cup {".", "*", "#", "%", "2", "3", "5", "A", "E"}

\* The words so far, after one more character.
Longer(w, c) == IF c = "." THEN Append(w, <<>>) ELSE [w EXCEPT ![Len(w)] = Append(@, c)]

AreWords(words, s) ==
    words[0] = << <<>> >> /\ \A i \in 1..Len(s) : words[i] = Longer(words[i - 1], s[i])

\* The words of the prefixes of a string.
LEMMA WordsRun ==
    ASSUME NEW s \in Seq(Char)
    PROVE  \E words \in [0..Len(s) -> Seq(Seq(Char)) \ {<<>>}] :
              Words(s) = words[Len(s)] /\ AreWords(words, s)
<1> DEFINE n == Len(s)
           empty == << <<>> >>
           S == Seq(Seq(Char)) \ {<<>>}
           step == [i \in 1..n |-> [w \in S |-> Longer(w, s[i])]]
<1>1. n \in Nat /\ empty \in S
    OBVIOUS
<1>2. ASSUME NEW i \in 1..n, NEW w \in S
      PROVE  Longer(w, s[i]) \in S
    <2>1. s[i] \in Char /\ w \in Seq(Seq(Char)) /\ Len(w) \in 1..Len(w)
        OBVIOUS
    <2>2. <<>> \in Seq(Char) /\ w[Len(w)] \in Seq(Char)
        BY <2>1
    <2>3. Append(w, <<>>) \in S /\ Append(w[Len(w)], s[i]) \in Seq(Char)
        BY <2>1, <2>2, OneLonger, Zenon
    <2>4. [w EXCEPT ![Len(w)] = Append(@, s[i])] \in Seq(Seq(Char))
        BY <2>1, <2>3
    <2>5. Len([w EXCEPT ![Len(w)] = Append(@, s[i])]) = Len(w)
        BY <2>1, <2>3
    <2> QED
        BY <2>1, <2>3, <2>4, <2>5 DEF Longer
<1> HIDE DEF S, n, empty
<1>3. step \in [1..n -> [S -> S]]
    BY <1>2
<1>4. PICK f \in [0..n -> S] : Follows(f, n, empty, step)
    <2> HIDE DEF step
    <2> QED
        BY <1>1, <1>3, Recursion, Zenon
<1>5. f[0] = empty /\ \A i \in 1..n : f[i] = Longer(f[i - 1], s[i])
    <2>1. f[0] = empty /\ \A i \in 1..n : f[i] = step[i][f[i - 1]]
        <3> HIDE DEF step
        <3> QED
            BY <1>4 DEF Follows
    <2>2. ASSUME NEW i \in 1..n
          PROVE  f[i] = Longer(f[i - 1], s[i])
        BY <1>1, <2>1, f[i - 1] \in S
    <2> QED
        BY <2>1, <2>2
<1> DEFINE Body(g) == [i \in 0..n |-> IF i = 0 THEN empty ELSE Longer(g[i - 1], s[i])]
<1>6. f = Body(f)
    BY <1>1, <1>4, <1>5
<1> DEFINE words == CHOOSE g : g = Body(g)
<1>7. words = Body(words)
    BY <1>6, Zenon
<1>8. Words(s) = words[n]
    BY DEF Words, Longer, n, empty
<1> HIDE DEF words
<1>9. words[0] = empty /\ \A i \in 1..n : words[i] = Longer(words[i - 1], s[i])
    BY <1>1, <1>7
<1>10. words \in [0..n -> S]
    <2> DEFINE T == {i \in Nat : i <= n => words[i] \in S}
    <2>1. 0 \in T
        BY <1>1, <1>9
    <2>2. \A i \in Nat : i \in T => i + 1 \in T
        BY <1>1, <1>2, <1>9
    <2>3. \A i \in Nat : i \in T
        <3> HIDE DEF T
        <3> QED
            BY <2>1, <2>2, Induction
    <2> QED
        BY <1>1, <1>7, <2>3
<1> QED
    BY <1>8, <1>9, <1>10 DEF S, n, empty, AreWords

\* A character other than a dot goes to the last word.
LEMMA LongerWord ==
    ASSUME NEW w \in Seq(Seq(Char)), NEW u \in Seq(Char), NEW c \in Char, c # "."
    PROVE  Longer(Append(w, u), c) = Append(w, Append(u, c))
<1> DEFINE S == Seq(Char)
           v == Append(u, c)
           p == Append(w, u)
           q == Append(w, v)
           x == [p EXCEPT ![Len(w) + 1] = v]
<1>1. v \in S /\ Len(w) \in Nat
    OBVIOUS
<1> HIDE DEF S, v
<1>2. /\ p \in Seq(S) /\ Len(p) = Len(w) + 1 /\ p[Len(w) + 1] = u
      /\ q \in Seq(S) /\ Len(q) = Len(w) + 1 /\ q[Len(w) + 1] = v
      /\ \A i \in 1..Len(w) : p[i] = w[i] /\ q[i] = w[i]
    BY <1>1, AppendProperties DEF S
<1> HIDE DEF p, q
<1>3. x \in Seq(S) /\ Len(x) = Len(w) + 1
    BY <1>1, <1>2
<1>4. \A i \in 1..Len(w) + 1 : x[i] = q[i]
    BY <1>1, <1>2
<1>5. Longer(p, c) = x
    BY <1>2 DEF Longer, v
<1> HIDE DEF x
<1>6. x = q
    BY <1>2, <1>3, <1>4, SeqEqual
<1> QED
    BY <1>5, <1>6 DEF p, q, v

\* The string has b, which has no dot, after its first k characters.
HasWord(s, k, b) ==
    k + Len(b) <= Len(s) /\ \A j \in 1..Len(b) : s[k + j] = b[j] /\ b[j] # "."

\* A word grows up to the next dot.
LEMMA WordGrows ==
    ASSUME NEW s \in Seq(Char), NEW words,
           AreWords(words, s),
           NEW k \in Nat, NEW w \in Seq(Seq(Char)), words[k] = Append(w, <<>>),
           NEW b \in Seq(Char), HasWord(s, k, b)
    PROVE  words[k + Len(b)] = Append(w, b)
<1> DEFINE Part(j) == SubSeq(b, 1, j)
           T == {j \in Nat : j <= Len(b) => words[k + j] = Append(w, Part(j))}
<1>1. 0 \in T
    <2>1. Part(0) = <<>> /\ k + 0 = k
        OBVIOUS
    <2> QED
        BY <2>1, Zenon
<1>2. ASSUME NEW j \in Nat, j + 1 <= Len(b), words[k + j] = Append(w, Part(j))
      PROVE  words[k + (j + 1)] = Append(w, Part(j + 1))
    <2> DEFINE u == Part(j)
               v == Part(j + 1)
    <2>1. u \in Seq(Char) /\ v \in Seq(Char) /\ v = Append(u, b[j + 1])
        <3>1. /\ u \in Seq(Char) /\ v \in Seq(Char) /\ b[j + 1] \in Char
              /\ Len(u) = j /\ Len(v) = j + 1 /\ \A i \in 1..j + 1 : v[i] = b[i]
              /\ \A i \in 1..j : u[i] = b[i]
            <4>1. j \in 0..Len(b) /\ j + 1 \in 0..Len(b) /\ b[j + 1] \in Char
                BY <1>2
            <4> QED
                BY <4>1, FirstPart, Zenon
        <3> HIDE DEF u, v
        <3> DEFINE p == Append(u, b[j + 1])
        <3>2. p \in Seq(Char) /\ Len(p) = j + 1 /\ \A i \in 1..j + 1 : p[i] = b[i]
            BY <3>1
        <3> HIDE DEF p
        <3>3. v = p
            BY <3>1, <3>2, SeqEqual, Zenon
        <3> QED
            BY <3>1, <3>3 DEF p
    <2>2. k + (j + 1) \in 1..Len(s) /\ s[k + (j + 1)] = b[j + 1] /\ b[j + 1] # "."
          /\ (k + (j + 1)) - 1 = k + j
        BY <1>2 DEF HasWord
    <2>3. b[j + 1] \in Char
        BY <1>2
    <2> HIDE DEF u, v
    <2>4. words[k + (j + 1)] = Longer(Append(w, u), b[j + 1])
        BY <1>2, <2>2, Zenon DEF u, AreWords
    <2> QED
        BY <2>1, <2>2, <2>3, <2>4, LongerWord, Zenon DEF v
<1> HIDE DEF Part
<1>3. \A j \in Nat : j \in T => j + 1 \in T
    BY <1>2
<1>4. \A j \in Nat : j \in T
    <2> HIDE DEF T
    <2> QED
        BY <1>1, <1>3, Induction, Zenon
<1>5. Part(Len(b)) = b
    BY DEF Part
<1> QED
    BY <1>4, <1>5

Dotless(a) == \A i \in 1..Len(a) : a[i] # "."

\* There are words in every string.
LEMMA SomeWords ==
    ASSUME NEW s \in Seq(Char)
    PROVE  Words(s) \in Seq(Seq(Char))
<1>1. Len(s) \in 0..Len(s)
    OBVIOUS
<1> QED
    BY <1>1, WordsRun

\* A string without a dot is one word.
LEMMA OneWord ==
    ASSUME NEW a \in Seq(Char), Dotless(a)
    PROVE  Words(a) = <<a>>
<1>1. PICK words : Words(a) = words[Len(a)] /\ AreWords(words, a)
    BY WordsRun
<1>2. HasWord(a, 0, a)
    BY DEF HasWord, Dotless
<1> DEFINE w == <<>>
<1>3. words[0] = Append(w, <<>>) /\ w \in Seq(Seq(Char)) /\ Append(w, a) = <<a>>
    BY <1>1 DEF AreWords
<1> HIDE DEF w
<1>4. words[0 + Len(a)] = Append(w, a)
    BY <1>1, <1>2, <1>3, WordGrows
<1> QED
    BY <1>1, <1>3, <1>4

\* The parts of a key of a type and a route.
LEMMA KeyParts ==
    ASSUME NEW a \in Seq(Char), NEW b \in Seq(Char)
    PROVE  LET key == a \o <<".">> \o b
           IN  /\ key \in Seq(Char) /\ Len(key) = Len(a) + 1 + Len(b)
               /\ \A i \in 1..Len(a) : key[i] = a[i]
               /\ key[Len(a) + 1] = "."
               /\ \A i \in 1..Len(b) : key[Len(a) + 1 + i] = b[i]
<1> DEFINE p == a \o <<".">>
           n == Len(a)
<1>1. /\ p \in Seq(Char) /\ Len(p) = n + 1 /\ p[n + 1] = "." /\ n \in Nat
      /\ \A i \in 1..n : p[i] = a[i]
    BY DEF Char
<1> HIDE DEF p
<1> DEFINE key == p \o b
<1>2. /\ key \in Seq(Char) /\ Len(key) = Len(p) + Len(b)
      /\ \A i \in 1..Len(p) + Len(b) : key[i] = IF i <= Len(p) THEN p[i] ELSE b[i - Len(p)]
    BY <1>1, ConcatProperties, Zenon
<1> HIDE DEF key, n
<1>3. /\ \A i \in 1..n : key[i] = a[i]
      /\ key[n + 1] = "."
      /\ \A i \in 1..Len(b) : key[n + 1 + i] = b[i]
    <2>1. Len(b) \in Nat
        OBVIOUS
    <2> QED
        BY <1>1, <1>2, <2>1
<1> QED
    BY <1>1, <1>2, <1>3 DEF key, p, n

\* A dot makes two words.
LEMMA TwoWords ==
    ASSUME NEW a \in Seq(Char), Dotless(a), NEW b \in Seq(Char), Dotless(b)
    PROVE  Words(a \o <<".">> \o b) = <<a, b>>
<1> DEFINE key == a \o <<".">> \o b
           n == Len(a)
           e == <<>>
           w == <<a>>
<1>1. /\ key \in Seq(Char) /\ n \in Nat /\ Len(key) = n + 1 + Len(b)
      /\ \A i \in 1..n : key[i] = a[i]
      /\ key[n + 1] = "."
      /\ \A i \in 1..Len(b) : key[n + 1 + i] = b[i]
    BY KeyParts
<1>2. /\ e \in Seq(Seq(Char)) /\ Append(e, <<>>) = << <<>> >> /\ Append(e, a) = w
      /\ w \in Seq(Seq(Char))
    OBVIOUS
<1>3. Append(w, b) = <<a, b>>
    <2> DEFINE x == Append(w, b)
               y == <<a, b>>
    <2>1. /\ x \in Seq(Seq(Char)) /\ Len(x) = 2 /\ x[1] = a /\ x[2] = b
          /\ y \in Seq(Seq(Char)) /\ Len(y) = 2 /\ y[1] = a /\ y[2] = b
        OBVIOUS
    <2> HIDE DEF x, y
    <2>2. Len(x) = Len(y) /\ \A i \in 1..Len(x) : x[i] = y[i]
        BY <2>1
    <2>3. x = y
        BY <2>1, <2>2, SeqEqual, Zenon
    <2> QED
        BY <2>3 DEF x, y
<1> DEFINE k == n + 1
<1> HIDE DEF key, n, e, w, k
<1>4. PICK words : Words(key) = words[Len(key)] /\ AreWords(words, key)
    BY <1>1, WordsRun, Zenon
<1>5. HasWord(key, 0, a) /\ HasWord(key, k, b)
    BY <1>1 DEF HasWord, Dotless, n, k
<1>6. words[0] = Append(e, <<>>)
    BY <1>2, <1>4, Zenon DEF AreWords
<1>7. words[0 + n] = w
    <2>1. words[0 + Len(a)] = Append(e, a)
        <3> DEFINE z == 0
        <3>1. /\ key \in Seq(Char) /\ e \in Seq(Seq(Char)) /\ AreWords(words, key) /\ z \in Nat
              /\ HasWord(key, z, a) /\ words[z] = Append(e, <<>>)
            BY <1>1, <1>2, <1>4, <1>5, <1>6
        <3> HIDE DEF z
        <3>2. words[z + Len(a)] = Append(e, a)
            BY <3>1, WordGrows
        <3> QED
            BY <3>2 DEF z
    <2> QED
        BY <1>2, <2>1 DEF n
<1>8. words[k] = Append(w, <<>>)
    <2>1. n + 1 \in 1..Len(key) /\ (n + 1) - 1 = 0 + n
        BY <1>1
    <2>2. words[n + 1] = Longer(w, ".")
        BY <1>1, <1>4, <1>7, <2>1 DEF AreWords
    <2> QED
        BY <2>2 DEF Longer, k
<1>9. k \in Nat /\ Len(key) = k + Len(b)
    BY <1>1 DEF k
<1>10. words[k + Len(b)] = Append(w, b)
    <2>1. /\ key \in Seq(Char) /\ w \in Seq(Seq(Char)) /\ AreWords(words, key)
          /\ HasWord(key, k, b) /\ k \in Nat
        BY <1>1, <1>2, <1>4, <1>5, <1>9
    <2> QED
        BY <1>8, <2>1, WordGrows
<1> QED
    BY <1>3, <1>4, <1>9, <1>10, Zenon DEF key

\* "#" matches every key.
LEMMA AllMatch ==
    ASSUME NEW key \in Seq(Char)
    PROVE  TopicMatches(<<"#">>, key)
<1> DEFINE any == <<"#">>
           p == <<any>>
<1>1. any \in Seq(Char) /\ Dotless(any) /\ Len(p) = 1 /\ p[1] = <<"#">>
    BY DEF Char, Dotless
<1> HIDE DEF any
<1>2. Words(any) = p /\ Len(Words(key)) \in Nat
    BY <1>1, OneWord, SomeWords
<1> DEFINE n == Len(Words(key))
           cut == [i \in 0..1 |-> IF i = 0 THEN 0 ELSE n]
<1> HIDE DEF n, p
<1>3. cut \in [0..Len(p) -> 0..n] /\ cut[0] = 0 /\ cut[Len(p)] = n /\ n \in Nat
    BY <1>1, <1>2 DEF n
<1>4. \A i \in 1..Len(p) : p[i] = <<"#">> /\ cut[i] >= cut[i - 1]
    BY <1>1, <1>3
<1> HIDE DEF cut
<1>5. TopicMatches(any, key)
    BY <1>2, <1>3, <1>4 DEF TopicMatches, n
<1> QED
    BY <1>5 DEF any

-----------------------------------------------------------------------------
(* Where dead letters go                                                   *)

\* What is bound to a queue's own exchange: that queue, and nothing else.
LEMMA OwnExchangeBinds ==
    ASSUME TopologyInv, NEW c \in Clients, c.setup.isConsumer,
           NEW b \in broker.bindings, b.exchange \in OwnNames(c.setup)
    PROVE  b.queue = b.exchange
<1>1. b \in Present /\ b.do = "bind"
    BY DEF Present, TopologyInv
<1>2. PICK e \in started : b \in Declarations(e)
    BY <1>1 DEF TopologyInv, Declarer
<1>3. e \in Clients /\ (b \in OwnBinds(e.setup) \/ b \in HandlerBinds(e))
    BY <1>1, <1>2, Kinds, Zenon DEF TopologyInv
<1>4. b \notin HandlerBinds(e)
    BY <1>3, NamesAssumption DEF HandlerBinds, QueueBind
<1> QED
    BY <1>3, <1>4 DEF OwnBinds, QueueBind

\* A queue whose exchange for dead letters is bound to the queue of that name.
LEMMA DeadLettersGo ==
    ASSUME TopologyInv, NEW c \in Clients, c.setup.isConsumer, NEW target \in OwnNames(c.setup),
           NEW q \in broker.queues, q.dlx = target, QueueBind(target, <<"#">>, target) \in broker.bindings,
           NEW t \in Types
    PROVE  DeadLettered(q.name, t) = {target}
<1>1. {p \in broker.queues : p.name = q.name} = {q}
    BY DEF TopologyInv
<1>2. TopicMatches(<<"#">>, t)
    BY AllMatch, SeqMonotonic, RoutingAssumption DEF Char, IsTypeName
<1>3. \A b \in broker.bindings : b.exchange = target => b.queue = target
    BY OwnExchangeBinds
<1> DEFINE b == QueueBind(target, <<"#">>, target)
<1>4. b.exchange = target /\ b.queue = target /\ b.key = <<"#">>
    BY DEF QueueBind
<1> HIDE DEF b
<1>5. \A x : x \in RoutedTo(target, t) <=> x = target
    BY <1>2, <1>3, <1>4 DEF RoutedTo, b
<1> QED
    BY <1>1, <1>5 DEF DeadLettered

\* The consumer that bound a queue, of which this may be another version.
LEMMA BoundBy ==
    ASSUME TopologyInv, NEW c \in started, NEW b \in broker.bindings,
           b.queue \in {c.setup.queueName, c.setup.retryName}
    PROVE  \E e \in Clients :
              /\ e.setup.isConsumer /\ c.setup.isConsumer
              /\ c \in Clients /\ OwnNames(e.setup) = OwnNames(c.setup)
              /\ e.setup.queueName = c.setup.queueName /\ e.setup.dlqName = c.setup.dlqName
              /\ e.setup.retryName = c.setup.retryName
              /\ b.queue = c.setup.retryName => e.setup.withRetry
              /\ Needs(e, b) \subseteq Present /\ b.do = "bind"
<1>1. b \in Present /\ b.do = "bind" /\ c \in Clients
    BY DEF Present, TopologyInv
<1>2. PICK e \in started : b \in Declarations(e) /\ Needs(e, b) \subseteq Present
    BY <1>1 DEF TopologyInv, Declarer
<1>3. e \in Clients /\ e.setup.isConsumer /\ (b \in OwnBinds(e.setup) \/ b \in HandlerBinds(e))
    BY <1>1, <1>2, Kinds, Zenon DEF TopologyInv
<1> DEFINE s == e.setup
           r == c.setup
<1>4. /\ b.queue \in {s.dlqName, s.queueName, s.retryName}
      /\ b.queue \in {s.dlqName, s.queueName} \/ s.withRetry
    BY <1>3 DEF OwnBinds, HandlerBinds, QueueBind
<1>5. c.setup.isConsumer
    <2> SUFFICES ASSUME ~c.setup.isConsumer PROVE FALSE
        OBVIOUS
    <2>1. r.queueName = <<>> /\ r.retryName = <<>>
        BY <1>1, NamesAssumption DEF Built
    <2>2. s.queueName \in Seq(STRING) /\ s.queueName # <<>>
          /\ s.dlqName = s.queueName \o <<".dlq">> /\ s.retryName = s.queueName \o <<".retry">>
        BY <1>3, NamesAssumption DEF Built
    <2>3. s.dlqName # <<>> /\ s.retryName # <<>>
        BY <2>2
    <2> QED
        BY <1>4, <2>1, <2>2, <2>3
<1>6. b.queue = r.queueName => s.queueName = r.queueName
    BY <1>1, <1>3, <1>4, <1>5, DistinctNames
<1>7. b.queue = r.retryName => s.queueName = r.queueName /\ s.withRetry
    BY <1>1, <1>3, <1>4, <1>5, DistinctNames
<1>8. s.queueName = r.queueName => s.dlqName = r.dlqName /\ s.retryName = r.retryName
    BY <1>1, <1>3, <1>5, DistinctNames
<1> QED
    BY <1>1, <1>2, <1>3, <1>5, <1>6, <1>7, <1>8 DEF OwnNames

\* A queue or binding that is present as a declaration is at the broker.
LEMMA PresentQueue ==
    ASSUME TopologyInv, NEW d \in Present
    PROVE  /\ d.do = "queue" => d \in broker.queues
           /\ d.do = "bind" => d \in broker.bindings
<1>1. /\ \A q \in broker.queues : q.do = "queue"
      /\ \A b \in broker.bindings : b.do = "bind"
    BY Zenon DEF TopologyInv
<1> QED
    BY <1>1 DEF Present, createTopicExchange

\* A dead letter of a consumer's queue reaches its dead-letter queue and no other, from
\* the moment a message can be there (rabbitmq.go:501-519, 566-617).
THEOREM NoDeadLetterLost == TopologySpec => []DeadLettersKept
<1>1. TopologyInv => DeadLettersKept
    <2> SUFFICES ASSUME TopologyInv, NEW c \in started, NEW t \in Types, IsBound(c.setup.queueName)
                 PROVE  DeadLettered(c.setup.queueName, t) = {c.setup.dlqName}
        BY DEF DeadLettersKept
    <2>1. PICK x \in broker.bindings : x.queue = c.setup.queueName
        BY DEF IsBound
    <2>2. PICK e \in Clients :
              /\ e.setup.isConsumer /\ c.setup.isConsumer /\ c \in Clients
              /\ e.setup.queueName = c.setup.queueName /\ e.setup.dlqName = c.setup.dlqName
              /\ Needs(e, x) \subseteq Present /\ x.do = "bind"
        BY <2>1, BoundBy, Zenon
    <2> DEFINE s == e.setup
               q == createQueue(s.queueName, s.dlqName, NoArgument)
               b == QueueBind(s.dlqName, <<"#">>, s.dlqName)
    <2>3. /\ q \in OwnQueues(s) /\ q.name = s.queueName /\ q.dlx = s.dlqName /\ q.do = "queue"
          /\ b \in OwnBinds(s) /\ b.queue = s.dlqName /\ b.do = "bind"
        BY DEF OwnQueues, OwnBinds, createQueue, QueueBind
    <2> HIDE DEF q, b
    <2>4. q \in Needs(e, x) /\ b \in Needs(e, x)
        BY <2>1, <2>2, <2>3 DEF Needs
    <2>5. q \in broker.queues /\ b \in broker.bindings
        BY <2>2, <2>3, <2>4, PresentQueue, Zenon
    <2>6. s.dlqName \in OwnNames(s)
        BY Zenon DEF OwnNames
    <2>7. DeadLettered(q.name, t) = {s.dlqName}
        BY <2>2, <2>3, <2>5, <2>6, DeadLettersGo, Zenon DEF b
    <2> QED
        BY <2>2, <2>3, <2>7, Zenon
<1> QED
    BY <1>1, TopologyInductive, PTL

\* What is on a retry queue comes back to the queue of its consumer and to no other, also
\* when the next version does not retry (rabbitmq.go:578-590, 604-614).
THEOREM NoRetryLost == TopologySpec => []RetriesComeBack
<1>1. TopologyInv => RetriesComeBack
    <2> SUFFICES ASSUME TopologyInv, NEW c \in started, NEW t \in Types, IsBound(c.setup.retryName)
                 PROVE  DeadLettered(c.setup.retryName, t) = {c.setup.queueName}
        BY DEF RetriesComeBack
    <2>1. PICK x \in broker.bindings : x.queue = c.setup.retryName
        BY DEF IsBound
    <2>2. PICK e \in Clients :
              /\ e.setup.isConsumer /\ c.setup.isConsumer /\ c \in Clients /\ e.setup.withRetry
              /\ e.setup.queueName = c.setup.queueName /\ e.setup.retryName = c.setup.retryName
              /\ Needs(e, x) \subseteq Present /\ x.do = "bind"
        BY <2>1, BoundBy, Zenon
    <2> DEFINE s == e.setup
               q == createQueue(s.retryName, s.queueName, s.retryInterval \div 1000)
               b == QueueBind(s.queueName, <<"#">>, s.queueName)
    <2>3. /\ q \in OwnQueues(s) /\ q.name = s.retryName /\ q.dlx = s.queueName /\ q.do = "queue"
          /\ b \in OwnBinds(s) /\ b.queue = s.queueName /\ b.do = "bind"
        BY <2>2 DEF OwnQueues, OwnBinds, createQueue, QueueBind
    <2> HIDE DEF q, b
    <2>4. q \in Needs(e, x) /\ b \in Needs(e, x)
        BY <2>1, <2>2, <2>3 DEF Needs
    <2>5. q \in broker.queues /\ b \in broker.bindings
        BY <2>2, <2>3, <2>4, PresentQueue
    <2>6. s.queueName \in OwnNames(s)
        BY Zenon DEF OwnNames
    <2>7. DeadLettered(q.name, t) = {s.queueName}
        BY <2>2, <2>3, <2>5, <2>6, DeadLettersGo, Zenon DEF b
    <2> QED
        BY <2>2, <2>3, <2>7, Zenon
<1> QED
    BY <1>1, TopologyInductive, PTL

-----------------------------------------------------------------------------
(* The encoding of routes                                                  *)

EncodedChar(c) == IF c \in reservedRouteChars THEN <<"%">> \o upperhex[c] ELSE <<c>>

\* An encoded character is the character, or "%" and two digits that tell which it is.
LEMMA EncodedCharShape ==
    ASSUME NEW c \in Char
    PROVE  /\ EncodedChar(c) \in Seq(Char)
           /\ c \notin reservedRouteChars => Len(EncodedChar(c)) = 1 /\ EncodedChar(c)[1] = c
           /\ c \in reservedRouteChars =>
                 /\ Len(EncodedChar(c)) = 3 /\ EncodedChar(c)[1] = "%"
                 /\ EncodedChar(c)[2] = "2"
                 /\ EncodedChar(c)[3] = CASE c = "." -> "E" [] c = "*" -> "A"
                                          [] c = "#" -> "3" [] c = "%" -> "5"
<1>1. CASE c \notin reservedRouteChars
    BY <1>1 DEF EncodedChar
<1>2. CASE c \in reservedRouteChars
    <2> DEFINE d == CASE c = "." -> "E" [] c = "*" -> "A" [] c = "#" -> "3" [] c = "%" -> "5"
               h == <<"2", d>>
               p == <<"%">>
    <2>1. d \in Char /\ "2" \in Char /\ "%" \in Char
        BY <1>2 DEF reservedRouteChars, Char
    <2>2. upperhex[c] = h
        BY <1>2 DEF upperhex, reservedRouteChars
    <2> HIDE DEF d
    <2>3. /\ h \in Seq(Char) /\ Len(h) = 2 /\ h[1] = "2" /\ h[2] = d
          /\ p \in Seq(Char) /\ Len(p) = 1 /\ p[1] = "%"
        BY <2>1
    <2>4. EncodedChar(c) = p \o h
        BY <1>2, <2>2 DEF EncodedChar
    <2> HIDE DEF h, p
    <2>5. /\ p \o h \in Seq(Char) /\ Len(p \o h) = 3
          /\ (p \o h)[1] = "%" /\ (p \o h)[2] = "2" /\ (p \o h)[3] = d
        <3>1. /\ p \o h \in Seq(Char) /\ Len(p \o h) = Len(p) + Len(h)
              /\ \A i \in 1..Len(p) + Len(h) : (p \o h)[i] = IF i <= Len(p) THEN p[i] ELSE h[i - Len(p)]
            BY <2>3, ConcatProperties, Zenon
        <3> DEFINE x == p \o h
        <3> HIDE DEF x
        <3>2. \A i \in 1..3 : x[i] = IF i <= 1 THEN p[i] ELSE h[i - 1]
            BY <2>3, <3>1 DEF x
        <3>3. x[1] = p[1] /\ x[2] = h[1] /\ x[3] = h[2]
            BY <3>2
        <3> QED
            BY <2>3, <3>1, <3>3 DEF x
    <2> QED
        BY <1>2, <2>4, <2>5 DEF d
<1> QED
    BY <1>1, <1>2, Zenon

\* The code of the prefixes of a route: each is the one before and one encoded character.
EncodesTo(code, route) ==
    /\ code \in [0..Len(route) -> Seq(Char)]
    /\ code[0] = <<>> /\ code[Len(route)] = encodeRoute(route)
    /\ \A i \in 1..Len(route) : code[i] = code[i - 1] \o EncodedChar(route[i])

LEMMA EncodeRun ==
    ASSUME NEW route \in Seq(Char)
    PROVE  \E code : EncodesTo(code, route)
<1> DEFINE n == Len(route)
           seqs == [i \in 1..n |-> EncodedChar(route[i])]
<1>1. n \in Nat /\ Len(seqs) = n /\ \A i \in 1..n : seqs[i] = EncodedChar(route[i])
    OBVIOUS
<1>2. encodeRoute(route) = Flattened(seqs)
    BY DEF encodeRoute, EncodedChar
<1>3. \A i \in 1..n : seqs[i] \in Seq(Char)
    BY <1>1, EncodedCharShape
<1>4. n = 0 => seqs = <<>>
    OBVIOUS
<1> HIDE DEF seqs, n
<1>5. PICK f : /\ Flattened(seqs) = IF n = 0 THEN seqs ELSE f[n]
               /\ \A i \in 1..n : f[i] = IF i = 1 THEN seqs[i] ELSE f[i - 1] \o seqs[i]
    BY <1>1, Flattening
<1> DEFINE code == [i \in 0..n |-> IF i = 0 THEN <<>> ELSE f[i]]
<1>6. \A i \in 1..n : code[i] = code[i - 1] \o seqs[i]
    <2> SUFFICES ASSUME NEW i \in 1..n PROVE code[i] = code[i - 1] \o seqs[i]
        BY Zenon
    <2>1. CASE i = 1
        <3>1. <<>> \o seqs[1] = seqs[1] /\ code[0] = <<>> /\ code[1] = f[1] /\ f[1] = seqs[1]
            BY <1>1, <1>3, <1>5, <2>1
        <3>2. i - 1 = 0
            BY <2>1
        <3> HIDE DEF code
        <3> QED
            BY <2>1, <3>1, <3>2, Zenon
    <2>2. CASE i # 1
        <3>1. code[i] = f[i] /\ code[i - 1] = f[i - 1]
            BY <1>1, <2>2
        <3> HIDE DEF code
        <3>2. f[i] = f[i - 1] \o seqs[i]
            BY <1>5, <2>2, Zenon
        <3> QED
            BY <3>1, <3>2
    <2> QED
        BY <2>1, <2>2, Zenon
<1>7. code[0] = <<>> /\ code[n] = encodeRoute(route) /\ DOMAIN code = 0..n
      /\ code = [i \in 0..n |-> code[i]]
    BY <1>1, <1>2, <1>4, <1>5
<1> HIDE DEF code
<1>8. \A i \in 0..n : code[i] \in Seq(Char)
    <2> DEFINE T == {i \in Nat : i <= n => code[i] \in Seq(Char)}
    <2>1. 0 \in T
        BY <1>7, <<>> \in Seq(Char), Zenon
    <2>2. ASSUME NEW i \in Nat, i + 1 <= n, code[i] \in Seq(Char)
          PROVE  code[i + 1] \in Seq(Char)
        <3>1. i + 1 \in 1..n /\ (i + 1) - 1 = i
            BY <1>1, <2>2
        <3>2. code[i + 1] = code[i] \o seqs[i + 1] /\ seqs[i + 1] \in Seq(Char)
            BY <1>3, <1>6, <3>1, Zenon
        <3> QED
            BY <2>2, <3>2
    <2>3. \A i \in Nat : i \in T => i + 1 \in T
        BY <1>1, <2>2
    <2>4. \A i \in Nat : i \in T
        <3> HIDE DEF T
        <3> QED
            BY <2>1, <2>3, Induction
    <2> QED
        BY <1>1, <2>4
<1>9. EncodesTo(code, route)
    BY <1>1, <1>6, <1>7, <1>8, Zenon DEF EncodesTo, n
<1> QED
    BY <1>9

\* Where the code of a character is in the code of the route.
CodeAt(route, code, i) ==
    LET e == encodeRoute(route)
        x == EncodedChar(route[i])
        before == Len(code[i - 1])
    IN  /\ before \in Nat /\ before + Len(x) <= Len(e)
        /\ \A k \in 1..Len(x) : e[before + k] = x[k]

\* The code of every character of a route is there.
LEMMA EncodedAt ==
    ASSUME NEW route \in Seq(Char), NEW code, EncodesTo(code, route), NEW i \in 1..Len(route)
    PROVE  CodeAt(route, code, i)
<1> DEFINE n == Len(route)
           x == EncodedChar(route[i])
           before == Len(code[i - 1])
           T == {j \in Nat : i + j <= n =>
                    /\ before + Len(x) <= Len(code[i + j])
                    /\ \A k \in 1..Len(x) : code[i + j][before + k] = x[k]}
<1> HIDE DEF n
<1>0. n \in Nat /\ i \in 1..n /\ \A j \in 1..n : route[j] \in Char
    BY DEF n
<1>1. /\ code[n] = encodeRoute(route)
      /\ \A j \in 0..n : code[j] \in Seq(Char)
      /\ \A j \in 1..n : code[j] = code[j - 1] \o EncodedChar(route[j])
    BY Zenon DEF EncodesTo, n
<1>2. \A j \in 1..n : EncodedChar(route[j]) \in Seq(Char)
    BY <1>0, EncodedCharShape
<1>3. x \in Seq(Char) /\ code[i - 1] \in Seq(Char) /\ code[i] = code[i - 1] \o x
    BY <1>0, <1>1, <1>2, i - 1 \in 0..n, Zenon
<1> HIDE DEF x
<1>a. before \in Nat /\ Len(x) \in Nat
    BY <1>3
<1>4. 0 \in T
    <2>1. /\ Len(code[i]) = before + Len(x)
          /\ \A k \in 1..Len(x) : code[i][before + k] = x[k]
        BY <1>3
    <2>2. i + 0 = i
        OBVIOUS
    <2> QED
        BY <1>3, <2>1, <2>2
<1>5. ASSUME NEW j \in Nat, i + (j + 1) <= n, before + Len(x) <= Len(code[i + j]),
             \A k \in 1..Len(x) : code[i + j][before + k] = x[k]
      PROVE  /\ before + Len(x) <= Len(code[i + (j + 1)])
             /\ \A k \in 1..Len(x) : code[i + (j + 1)][before + k] = x[k]
    <2> DEFINE c == code[i + j]
               y == EncodedChar(route[i + (j + 1)])
    <2>1. i + (j + 1) \in 1..n /\ (i + (j + 1)) - 1 = i + j /\ i + j \in 0..n
        BY <1>0, <1>5
    <2>2. c \in Seq(Char) /\ y \in Seq(Char) /\ code[i + (j + 1)] = c \o y
        BY <1>1, <1>2, <2>1, Zenon
    <2>3. before + Len(x) <= Len(c) /\ \A k \in 1..Len(x) : c[before + k] = x[k]
        BY <1>5
    <2> HIDE DEF c, y
    <2>4. /\ Len(c \o y) = Len(c) + Len(y) /\ Len(c) \in Nat /\ Len(y) \in Nat
          /\ \A k \in 1..Len(c) : (c \o y)[k] = c[k]
        BY <2>2
    <2> HIDE DEF before
    <2>5. \A k \in 1..Len(x) : before + k \in 1..Len(c)
        BY <1>a, <2>3, <2>4
    <2> QED
        BY <1>a, <2>2, <2>3, <2>4, <2>5
<1>6. \A j \in Nat : j \in T => j + 1 \in T
    BY <1>0, <1>5
<1>7. \A j \in Nat : j \in T
    <2> HIDE DEF T
    <2> QED
        BY <1>4, <1>6, Induction
<1>8. n - i \in T /\ i + (n - i) = n
    <2> HIDE DEF T
    <2> QED
        BY <1>0, <1>7
<1>9. /\ before + Len(x) <= Len(code[n])
      /\ \A k \in 1..Len(x) : code[n][before + k] = x[k]
    BY <1>0, <1>8
<1> QED
    BY <1>1, <1>a, <1>9, Zenon DEF x, CodeAt

\* Two routes with the same code agree as far as the first goes.
LEMMA EncodeDetermines ==
    ASSUME NEW r \in Seq(Char), NEW s \in Seq(Char), encodeRoute(r) = encodeRoute(s)
    PROVE  Len(r) <= Len(s) /\ \A i \in 1..Len(r) : r[i] = s[i]
<1>1. PICK f : EncodesTo(f, r)
    BY EncodeRun
<1>2. PICK g : EncodesTo(g, s)
    BY EncodeRun
<1> DEFINE T == {i \in Nat : i <= Len(r) => /\ i <= Len(s) /\ f[i] = g[i]
                                             /\ \A k \in 1..i : r[k] = s[k]}
<1>3. 0 \in T
    BY <1>1, <1>2 DEF EncodesTo
<1>4. ASSUME NEW i \in Nat, i + 1 <= Len(r), i <= Len(s), f[i] = g[i], \A k \in 1..i : r[k] = s[k]
      PROVE  /\ i + 1 <= Len(s) /\ f[i + 1] = g[i + 1]
             /\ \A k \in 1..i + 1 : r[k] = s[k]
    <2> DEFINE e == encodeRoute(r)
               m == i + 1
               c == r[m]
               d == s[m]
               x == EncodedChar(c)
               y == EncodedChar(d)
               before == Len(f[i])
    <2>1. m \in 1..Len(r) /\ m - 1 = i /\ c \in Char
        BY <1>4
    <2> HIDE DEF m
    <2>2. /\ before \in Nat /\ before + Len(x) <= Len(e)
          /\ \A k \in 1..Len(x) : e[before + k] = x[k]
        <3>1. CodeAt(r, f, m)
            BY <1>1, <2>1, EncodedAt, Zenon
        <3> QED
            BY <2>1, <3>1, Zenon DEF CodeAt
    <2> HIDE DEF c, e
    <2>3. Len(x) \in Nat /\ Len(x) >= 1
        <3>1. Len(x) \in {1, 3}
            BY <2>1, EncodedCharShape
        <3> HIDE DEF x
        <3> QED
            BY <3>1
    <2>4. i # Len(s)
        <3> SUFFICES ASSUME i = Len(s) PROVE FALSE
            OBVIOUS
        <3>1. g[i] = e
            BY <1>2 DEF EncodesTo, e
        <3>2. Len(e) = before
            BY <1>4, <3>1
        <3>3. before \in Nat /\ before + Len(x) <= Len(e)
            BY <2>2
        <3> HIDE DEF x, before
        <3> QED
            BY <2>3, <3>2, <3>3
    <2>5. m \in 1..Len(s) /\ d \in Char
        BY <1>4, <2>4 DEF m
    <2>6. \A k \in 1..Len(y) : e[before + k] = y[k]
        <3>1. before = Len(g[m - 1]) /\ e = encodeRoute(s)
            BY <1>4, <2>1 DEF e
        <3> HIDE DEF before, e
        <3>2. \A k \in 1..Len(y) : encodeRoute(s)[Len(g[m - 1]) + k] = y[k]
            <4>1. CodeAt(s, g, m)
                BY <1>2, <2>5, EncodedAt, Zenon
            <4> QED
                BY <4>1, Zenon DEF CodeAt
        <3> QED
            BY <3>1, <3>2
    <2> HIDE DEF d
    <2>7. Len(y) \in Nat /\ Len(y) >= 1
        <3>1. Len(y) \in {1, 3}
            BY <2>5, EncodedCharShape
        <3> HIDE DEF y
        <3> QED
            BY <3>1
    <2>8. /\ x[1] = y[1]
          /\ Len(x) = 3 /\ Len(y) = 3 => x[3] = y[3]
        <3>1. \A k \in 1..Len(x) : e[before + k] = x[k]
            BY <2>2
        <3> HIDE DEF x, y, before
        <3>2. \A n \in Nat : n >= 1 => 1 \in 1..n /\ (n = 3 => 3 \in 1..n)
            OBVIOUS
        <3>3. e[before + 1] = x[1] /\ e[before + 1] = y[1]
            BY <2>3, <2>6, <2>7, <3>1, <3>2
        <3>4. (Len(x) = 3 => e[before + 3] = x[3]) /\ (Len(y) = 3 => e[before + 3] = y[3])
            BY <2>3, <2>6, <2>7, <3>1, <3>2
        <3> QED
            BY <3>3, <3>4
    <2>9. c = d
        <3>1. CASE c \notin reservedRouteChars /\ d \notin reservedRouteChars
            BY <2>1, <2>5, <2>8, <3>1, EncodedCharShape
        <3>2. CASE c \in reservedRouteChars /\ d \notin reservedRouteChars
            <4>1. x[1] = "%" /\ y[1] = d
                BY <2>1, <2>5, <3>2, EncodedCharShape
            <4> QED
                BY <2>8, <3>2, <4>1, Zenon DEF reservedRouteChars
        <3>3. CASE c \notin reservedRouteChars /\ d \in reservedRouteChars
            <4>1. x[1] = c /\ y[1] = "%"
                BY <2>1, <2>5, <3>3, EncodedCharShape
            <4> QED
                BY <2>8, <3>3, <4>1, Zenon DEF reservedRouteChars
        <3>4. CASE c \in reservedRouteChars /\ d \in reservedRouteChars
            <4>1. x[3] = y[3]
                BY <2>1, <2>5, <2>8, <3>4, EncodedCharShape
            <4>2. /\ x[3] = CASE c = "." -> "E" [] c = "*" -> "A" [] c = "#" -> "3" [] c = "%" -> "5"
                  /\ y[3] = CASE d = "." -> "E" [] d = "*" -> "A" [] d = "#" -> "3" [] d = "%" -> "5"
                BY <2>1, <2>5, <3>4, EncodedCharShape, Zenon
            <4> HIDE DEF x, y
            <4> QED
                BY <3>4, <4>1, <4>2, Zenon DEF reservedRouteChars
        <3> QED
            BY <3>1, <3>2, <3>3, <3>4
    <2>10. f[m] = g[m]
        BY <1>1, <1>2, <1>4, <2>1, <2>5, <2>9, Zenon DEF EncodesTo, c, d
    <2> QED
        BY <1>4, <2>5, <2>9, <2>10 DEF m, c, d
<1>5. \A i \in Nat : i \in T => i + 1 \in T
    BY <1>4
<1>6. \A i \in Nat : i \in T
    <2> HIDE DEF T
    <2> QED
        BY <1>3, <1>5, Induction
<1> QED
    BY <1>6, Len(r) \in Nat

\* No two routes have the same code.
LEMMA EncodeInjective ==
    ASSUME NEW r \in Seq(Char), NEW s \in Seq(Char), encodeRoute(r) = encodeRoute(s)
    PROVE  r = s
<1>1. Len(r) <= Len(s) /\ \A i \in 1..Len(r) : r[i] = s[i]
    BY EncodeDetermines
<1>2. Len(s) <= Len(r)
    BY EncodeDetermines
<1>3. Len(r) = Len(s)
    BY <1>1, <1>2
<1> QED
    BY <1>1, <1>3, SeqEqual

\* A code has none of the reserved characters but "%", and is no wildcard.
LEMMA EncodePlain ==
    ASSUME NEW r \in Seq(Char)
    PROVE  /\ encodeRoute(r) \in Seq(Char)
           /\ \A k \in 1..Len(encodeRoute(r)) : encodeRoute(r)[k] \notin {".", "*", "#"}
<1>1. PICK code : EncodesTo(code, r)
    BY EncodeRun
<1> DEFINE Clean(x) == \A k \in 1..Len(x) : x[k] \notin {".", "*", "#"}
           T == {i \in Nat : i <= Len(r) => Clean(code[i])}
<1>2. 0 \in T
    BY <1>1 DEF EncodesTo
<1>3. ASSUME NEW i \in Nat, i + 1 <= Len(r), Clean(code[i])
      PROVE  Clean(code[i + 1])
    <2> DEFINE c == code[i]
               y == EncodedChar(r[i + 1])
    <2>1. i + 1 \in 1..Len(r) /\ (i + 1) - 1 = i /\ r[i + 1] \in Char /\ i \in 0..Len(r)
        BY <1>3
    <2>2. code[i + 1] = c \o y /\ c \in Seq(Char)
        BY <1>1, <2>1, Zenon DEF EncodesTo
    <2>3. y \in Seq(Char) /\ Clean(y)
        <3>1. y \in Seq(Char)
            BY <2>1, EncodedCharShape
        <3>2. CASE r[i + 1] \notin reservedRouteChars
            BY <2>1, <3>2, EncodedCharShape DEF reservedRouteChars
        <3>3. CASE r[i + 1] \in reservedRouteChars
            <4>1. Len(y) = 3 /\ y[1] = "%" /\ y[2] = "2" /\ y[3] \notin {".", "*", "#"}
                BY <2>1, <3>3, EncodedCharShape DEF reservedRouteChars
            <4> HIDE DEF y
            <4>2. \A k \in 1..3 : k = 1 \/ k = 2 \/ k = 3
                OBVIOUS
            <4> QED
                BY <3>1, <4>1, <4>2
        <3> QED
            BY <3>1, <3>2, <3>3
    <2> HIDE DEF c, y
    <2>4. /\ Len(c \o y) = Len(c) + Len(y) /\ Len(c) \in Nat /\ Len(y) \in Nat
          /\ \A k \in 1..Len(c) + Len(y) : (c \o y)[k] = IF k <= Len(c) THEN c[k] ELSE y[k - Len(c)]
        BY <2>2, <2>3, ConcatProperties
    <2>5. Clean(c \o y)
        BY <1>3, <2>3, <2>4 DEF c
    <2> QED
        BY <2>2, <2>5
<1> HIDE DEF Clean
<1>4. \A i \in Nat : i \in T => i + 1 \in T
    BY <1>3
<1>5. \A i \in Nat : i \in T
    <2> HIDE DEF T
    <2> QED
        BY <1>2, <1>4, Induction
<1>6. Clean(code[Len(r)])
    BY <1>5, Len(r) \in Nat
<1> QED
    BY <1>1, <1>6, Len(r) \in 0..Len(r) DEF EncodesTo, Clean

-----------------------------------------------------------------------------
(* Who receives a message                                                  *)

\* A binding for a type and a route, or all of its routes, and a key.
LEMMA MatchTwo ==
    ASSUME NEW b, NEW key, NEW t, NEW r, NEW a, NEW w, Words(key) = <<t, r>>, Words(b) = <<a, w>>,
           a \notin {<<"#">>, <<"*">>}, w # <<"*">>
    PROVE  TopicMatches(b, key) <=> a = t /\ w \in {<<"#">>, r}
<1> DEFINE p == <<a, w>>
           k == <<t, r>>
           any == <<"#">>
           one == <<"*">>
           Cuts(cut) == /\ cut[0] = 0 /\ cut[Len(p)] = Len(k)
                        /\ \A n \in 1..Len(p) :
                              IF p[n] = any THEN cut[n] >= cut[n - 1]
                              ELSE cut[n] = cut[n - 1] + 1 /\ p[n] \in {one, k[cut[n]]}
<1>1. TopicMatches(b, key) <=> \E cut \in [0..Len(p) -> 0..Len(k)] : Cuts(cut)
    BY DEF TopicMatches
<1>2. Len(p) = 2 /\ p[1] = a /\ p[2] = w /\ Len(k) = 2 /\ k[1] = t /\ k[2] = r
    OBVIOUS
<1>3. a # any /\ a # one /\ w # one
    OBVIOUS
<1> HIDE DEF p, k, any, one
<1>4. ASSUME NEW cut \in [0..2 -> 0..2], Cuts(cut)
      PROVE  a = t /\ w \in {any, r}
    <2>1. cut[0] = 0 /\ cut[2] = 2 /\ cut[1] = 1 /\ a \in {one, k[1]}
        BY <1>2, <1>3, <1>4
    <2>2. w # any => w \in {one, k[2]}
        BY <1>2, <1>4, <2>1
    <2> QED
        BY <1>2, <1>3, <2>1, <2>2
<1>5. ASSUME a = t, w \in {any, r}
      PROVE  \E cut \in [0..2 -> 0..2] : Cuts(cut)
    <2> DEFINE cut == [i \in 0..2 |-> i]
    <2>1. cut \in [0..2 -> 0..2] /\ cut[0] = 0 /\ cut[1] = 1 /\ cut[2] = 2
        OBVIOUS
    <2> HIDE DEF cut
    <2>2. \A n \in 1..2 : IF p[n] = any THEN cut[n] >= cut[n - 1]
                          ELSE cut[n] = cut[n - 1] + 1 /\ p[n] \in {one, k[cut[n]]}
        <3>1. \A n \in 1..2 : n = 1 \/ n = 2
            OBVIOUS
        <3>2. 1 - 1 = 0 /\ 2 - 1 = 1
            OBVIOUS
        <3> QED
            BY <1>2, <1>3, <1>5, <2>1, <3>1, <3>2
    <2>3. Cuts(cut)
        BY <1>2, <2>1, <2>2
    <2> HIDE DEF Cuts
    <2> QED
        BY <2>1, <2>3
<1> HIDE DEF Cuts
<1> QED
    BY <1>1, <1>2, <1>4, <1>5 DEF any

\* A binding for a type without routes takes no key with a route.
LEMMA MatchOne ==
    ASSUME NEW b, NEW key, NEW t, NEW r, NEW a, Words(key) = <<t, r>>, Words(b) = <<a>>, a # <<"#">>
    PROVE  ~TopicMatches(b, key)
<1> DEFINE p == <<a>>
           k == <<t, r>>
           any == <<"#">>
<1>1. Len(p) = 1 /\ p[1] = a /\ Len(k) = 2 /\ a # any
    OBVIOUS
<1> HIDE DEF p, k, any
<1>2. ASSUME TopicMatches(b, key) PROVE FALSE
    <2>1. PICK cut \in [0..Len(p) -> 0..Len(k)] :
              /\ cut[0] = 0 /\ cut[Len(p)] = Len(k)
              /\ \A n \in 1..Len(p) :
                    IF p[n] = any THEN cut[n] >= cut[n - 1]
                    ELSE cut[n] = cut[n - 1] + 1 /\ p[n] \in {<<"*">>, k[cut[n]]}
        BY <1>2 DEF TopicMatches, p, k, any
    <2>2. cut[1] = 1
        BY <1>1, <2>1
    <2> QED
        BY <1>1, <2>1, <2>2
<1> QED
    BY <1>2

\* The names of types as strings: no dot, no wildcard.
LEMMA TypeNames ==
    ASSUME NEW t, IsTypeName(t)
    PROVE  t \in Seq(Char) /\ Dotless(t) /\ t \notin {<<"#">>, <<"*">>}
<1>1. t \in Seq(STRING) /\ \A i \in 1..Len(t) : t[i] \notin reservedRouteChars
    BY DEF IsTypeName, Range
<1>2. t \in Seq(Char)
    BY <1>1, SeqMonotonic DEF Char
<1>3. Dotless(t)
    BY <1>1 DEF Dotless, reservedRouteChars
<1>4. ASSUME NEW x, t = <<x>>
      PROVE  x \notin reservedRouteChars
    BY <1>1, <1>4
<1> QED
    BY <1>2, <1>3, <1>4 DEF reservedRouteChars

\* A code is a word, and no wildcard.
LEMMA Codes ==
    ASSUME NEW r \in Seq(STRING)
    PROVE  /\ r \in Seq(Char) /\ encodeRoute(r) \in Seq(Char) /\ Dotless(encodeRoute(r))
           /\ encodeRoute(r) \notin {<<"#">>, <<"*">>}
<1> DEFINE e == encodeRoute(r)
<1>1. r \in Seq(Char)
    BY SeqMonotonic DEF Char
<1>2. e \in Seq(Char) /\ \A k \in 1..Len(e) : e[k] \notin {".", "*", "#"}
    BY <1>1, EncodePlain
<1> HIDE DEF e
<1>3. ASSUME NEW x, e = <<x>>
      PROVE  x \notin {".", "*", "#"}
    BY <1>2, <1>3
<1> QED
    BY <1>1, <1>2, <1>3 DEF e, Dotless

\* The key of all routes of a type.
LEMMA AllRoutesWords ==
    ASSUME NEW t \in Seq(Char), Dotless(t)
    PROVE  Words(t \o allRoutesSuffix) = <<t, <<"#">>>>
<1> DEFINE any == <<"#">>
<1>1. any \in Seq(Char) /\ Dotless(any)
    BY DEF Dotless, Char
<1>2. t \o allRoutesSuffix = t \o <<".">> \o any
    <2> DEFINE x == t \o allRoutesSuffix
               y == t \o <<".">> \o any
               n == Len(t)
    <2>1. /\ y \in Seq(Char) /\ Len(y) = n + 1 + Len(any) /\ \A i \in 1..n : y[i] = t[i]
          /\ y[n + 1] = "." /\ \A i \in 1..Len(any) : y[n + 1 + i] = any[i]
        BY <1>1, KeyParts
    <2>2. Len(any) = 1 /\ any[1] = "#"
        OBVIOUS
    <2> DEFINE s == allRoutesSuffix
    <2>3. s \in Seq(Char) /\ Len(s) = 2 /\ s[1] = "." /\ s[2] = "#"
        BY DEF allRoutesSuffix, Char
    <2> HIDE DEF s
    <2>4. /\ x \in Seq(Char) /\ Len(x) = n + Len(s)
          /\ \A i \in 1..n + Len(s) : x[i] = IF i <= n THEN t[i] ELSE s[i - n]
        BY <2>3, ConcatProperties, Zenon DEF s
    <2>5. n \in Nat
        OBVIOUS
    <2> HIDE DEF x, y, n, any
    <2>6. Len(x) = Len(y) /\ \A i \in 1..Len(x) : x[i] = y[i]
        <3>1. Len(x) = n + 2 /\ Len(y) = n + 2
            BY <2>1, <2>2, <2>3, <2>4, <2>5
        <3>2. x[n + 1] = s[1] /\ x[n + 2] = s[2] /\ y[n + 2] = any[1]
            BY <2>1, <2>2, <2>3, <2>4, <2>5
        <3>3. \A i \in 1..n + 2 : i \in 1..n \/ i = n + 1 \/ i = n + 2
            BY <2>5
        <3>4. \A i \in 1..n : x[i] = t[i]
            BY <2>3, <2>4, <2>5
        <3> QED
            BY <2>1, <2>2, <2>3, <3>1, <3>2, <3>3, <3>4
    <2>7. x = y
        BY <2>1, <2>4, <2>6, SeqEqual
    <2> QED
        BY <2>7 DEF x, y
<1> HIDE DEF any
<1>3. Words(t \o <<".">> \o any) = <<t, any>>
    BY <1>1, TwoWords, Zenon
<1> QED
    BY <1>2, <1>3 DEF any

\* The words of a binding key.
HandlerWords(h) ==
    IF h.route # NoRoute THEN <<h.type, encodeRoute(h.route)>>
    ELSE IF h.routed THEN <<h.type, <<"#">>>> ELSE <<h.type>>

LEMMA HandlerKey ==
    ASSUME NEW c \in Clients, NEW h \in c.handlers
    PROVE  /\ Words(BindingKey(h)) = HandlerWords(h)
           /\ h.route # NoRoute => BindingKey(h) = routedKey(h.type, h.route)
           /\ h.route = NoRoute /\ h.routed => BindingKey(h) = h.type \o allRoutesSuffix
<1>1. /\ h.type \in Seq(Char) /\ Dotless(h.type) /\ h.routed \in BOOLEAN
      /\ h.route # NoRoute => h.route \in Seq(STRING) /\ SubscribeRoute(h.type, h.route) # {}
    BY RoutingAssumption, TypeNames
<1>2. CASE h.route # NoRoute
    <2>1. BindingKey(h) = routedKey(h.type, h.route)
        <3>1. SubscribeRoute(h.type, h.route) = {routedKey(h.type, h.route)}
            BY <1>1, <1>2 DEF SubscribeRoute
        <3>2. BindingKey(h) \in SubscribeRoute(h.type, h.route)
            BY <1>1, <1>2 DEF BindingKey
        <3> QED
            BY <3>1, <3>2
    <2>2. Words(routedKey(h.type, h.route)) = <<h.type, encodeRoute(h.route)>>
        BY <1>1, <1>2, Codes, TwoWords DEF routedKey
    <2> QED
        BY <1>2, <2>1, <2>2 DEF HandlerWords
<1>3. CASE h.route = NoRoute /\ h.routed
    BY <1>1, <1>3, AllRoutesWords DEF BindingKey, Subscribe, HandlerWords
<1>4. CASE h.route = NoRoute /\ ~h.routed
    BY <1>1, <1>4, OneWord DEF BindingKey, Subscribe, HandlerWords
<1> QED
    BY <1>1, <1>2, <1>3, <1>4

\* A message that is sent, and the words of its key.
LEMMA SentKey ==
    ASSUME NEW m \in Sent
    PROVE  /\ m.type \in Types /\ m.route \in Seq(STRING) /\ m.route # NoRoute
           /\ m.key = routedKey(m.type, m.route)
           /\ Words(m.key) = <<m.type, encodeRoute(m.route)>>
<1>1. PICK t \in Types, r \in Routes : \E k \in getPublishMessage([type |-> t, routed |-> TRUE, route |-> r]) :
          m = [type |-> t, route |-> r, key |-> k]
    BY DEF Sent
<1>2. m.type = t /\ m.route = r /\ m.key = routedKey(t, r)
    BY <1>1 DEF getPublishMessage, publishRoutingKeys, IsRouted, RouteOf
<1>3. r \in Seq(STRING) /\ r # NoRoute /\ IsTypeName(t)
    BY RoutingAssumption
<1>4. Words(routedKey(t, r)) = <<t, encodeRoute(r)>>
    BY <1>3, TypeNames, Codes, TwoWords DEF routedKey
<1> QED
    BY <1>2, <1>3, <1>4

\* The broker matches a handler's binding with a message when the handler wants it.
LEMMA MatchesAsWanted ==
    ASSUME NEW c \in Clients, NEW h \in c.handlers, NEW m \in Sent
    PROVE  TopicMatches(BindingKey(h), m.key) <=> Wants(h, m)
<1> DEFINE e == encodeRoute(m.route)
           any == <<"#">>
           star == <<"*">>
<1>1. /\ m.type \in Types /\ m.route \in Seq(STRING) /\ m.route # NoRoute
      /\ Words(m.key) = <<m.type, e>>
    BY SentKey
<1>2. /\ h.type \notin {any, star} /\ h.routed \in BOOLEAN
      /\ h.type \in Types \/ h.route # NoRoute => h.routed
      /\ h.route # NoRoute => h.route \in Seq(STRING)
    BY RoutingAssumption, TypeNames
<1>3. Words(BindingKey(h)) = HandlerWords(h)
    BY HandlerKey
<1>4. CASE h.route # NoRoute
    <2> DEFINE w == encodeRoute(h.route)
    <2>1. w \notin {any, star}
        BY <1>2, <1>4, Codes
    <2>2. Words(BindingKey(h)) = <<h.type, w>>
        BY <1>3, <1>4 DEF HandlerWords
    <2>3. w = e <=> h.route = m.route
        BY <1>1, <1>2, <1>4, Codes, EncodeInjective
    <2> HIDE DEF w, e
    <2>4. TopicMatches(BindingKey(h), m.key) <=> h.type = m.type /\ w \in {any, e}
        BY <1>1, <1>2, <2>1, <2>2, MatchTwo
    <2> QED
        BY <1>4, <2>1, <2>3, <2>4 DEF Wants
<1>5. CASE h.route = NoRoute /\ h.routed
    <2>1. Words(BindingKey(h)) = <<h.type, any>> /\ any # star
        BY <1>3, <1>5 DEF HandlerWords
    <2> HIDE DEF e
    <2>2. TopicMatches(BindingKey(h), m.key) <=> h.type = m.type /\ any \in {any, e}
        BY <1>1, <1>2, <2>1, MatchTwo
    <2> QED
        BY <1>5, <2>2 DEF Wants
<1>6. CASE h.route = NoRoute /\ ~h.routed
    <2>1. Words(BindingKey(h)) = <<h.type>>
        BY <1>3, <1>6 DEF HandlerWords
    <2> HIDE DEF e
    <2>2. ~TopicMatches(BindingKey(h), m.key)
        BY <1>1, <1>2, <2>1, MatchOne
    <2>3. h.type # m.type
        BY <1>1, <1>2, <1>6
    <2> QED
        BY <2>2, <2>3 DEF Wants
<1> QED
    BY <1>2, <1>4, <1>5, <1>6

\* A message reaches the queues that are bound for it and no other, whatever characters
\* its route has (routing.go:28-57, consumer.go:23-53).
THEOREM RoutesReachTheirQueues == TopologySpec => []RoutesKeptApart
<1>1. TopologyInv => RoutesKeptApart
    <2> SUFFICES ASSUME TopologyInv, NEW m \in Sent, NEW a \in started, NEW g \in a.handlers
                 PROVE  RoutedTo(g.exchange, m.key) =
                            {c.setup.queueName : c \in {d \in started : \E h \in d.handlers :
                                /\ h.exchange = g.exchange /\ Wants(h, m)
                                /\ QueueBind(g.exchange, BindingKey(h), d.setup.queueName) \in broker.bindings}}
        BY DEF RoutesKeptApart
    <2> DEFINE x == g.exchange
               Takes(d) == \E h \in d.handlers :
                   /\ h.exchange = x /\ Wants(h, m)
                   /\ QueueBind(x, BindingKey(h), d.setup.queueName) \in broker.bindings
    <2>1. ASSUME NEW y \in broker.bindings, y.exchange = x, TopicMatches(y.key, m.key)
          PROVE  \E c \in started : Takes(c) /\ y.queue = c.setup.queueName
        <3>1. y \in Present /\ y.do = "bind" /\ a \in Clients
            BY DEF Present, TopologyInv
        <3>2. PICK c \in started : y \in Declarations(c)
            BY <3>1 DEF TopologyInv, Declarer
        <3>3. c \in Clients /\ c.setup.isConsumer /\ (y \in OwnBinds(c.setup) \/ y \in HandlerBinds(c))
            BY <3>1, <3>2, Kinds, Zenon DEF TopologyInv
        <3>4. y \notin OwnBinds(c.setup)
            <4>1. x \notin OwnNames(c.setup)
                BY <3>1, <3>3, NamesAssumption, Zenon
            <4> QED
                BY <2>1, <4>1, OwnBindsNamed, Zenon
        <3>5. PICK h \in c.handlers : y = QueueBind(h.exchange, BindingKey(h), c.setup.queueName)
            BY <3>3, <3>4 DEF HandlerBinds
        <3>6. y.exchange = h.exchange /\ y.key = BindingKey(h) /\ y.queue = c.setup.queueName
            BY <3>5 DEF QueueBind
        <3>7. Wants(h, m)
            BY <2>1, <3>3, <3>6, MatchesAsWanted
        <3> QED
            BY <2>1, <3>5, <3>6, <3>7
    <2>2. ASSUME NEW c \in started, Takes(c)
          PROVE  \E y \in broker.bindings : /\ y.exchange = x /\ TopicMatches(y.key, m.key)
                                            /\ y.queue = c.setup.queueName
        <3>1. PICK h \in c.handlers :
                  /\ h.exchange = x /\ Wants(h, m)
                  /\ QueueBind(x, BindingKey(h), c.setup.queueName) \in broker.bindings
            BY <2>2
        <3> DEFINE y == QueueBind(x, BindingKey(h), c.setup.queueName)
        <3>2. y.exchange = x /\ y.key = BindingKey(h) /\ y.queue = c.setup.queueName
            BY DEF QueueBind
        <3>3. TopicMatches(BindingKey(h), m.key)
            BY <3>1, MatchesAsWanted DEF TopologyInv
        <3> HIDE DEF y
        <3>4. y \in broker.bindings
            BY <3>1 DEF y
        <3> QED
            BY <3>2, <3>3, <3>4
    <2>3. RoutedTo(x, m.key) = {c.setup.queueName : c \in {d \in started : Takes(d)}}
        <3> HIDE DEF Takes, x
        <3> QED
            BY <2>1, <2>2 DEF RoutedTo
    <2> QED
        BY <2>3
<1> QED
    BY <1>1, TopologyInductive, PTL

\* The type's name comes back out of a key with a route.
LEMMA TypeNameOfKey ==
    ASSUME NEW t \in Seq(Char), Dotless(t), NEW b \in Seq(Char)
    PROVE  typeNameOf(t \o <<".">> \o b) = t /\ t # t \o <<".">> \o b
<1> DEFINE key == t \o <<".">> \o b
           n == Len(t)
<1>1. /\ key \in Seq(Char) /\ Len(key) = n + 1 + Len(b) /\ n \in Nat /\ Len(b) \in Nat
      /\ \A i \in 1..n : key[i] = t[i]
      /\ key[n + 1] = "."
    BY KeyParts
<1>2. \A i \in 1..n : key[i] # "."
    BY <1>1 DEF Dotless
<1> HIDE DEF key
<1> DEFINE I == {i \in 1..Len(key) : key[i] = "."}
           dot == FirstAt(key, ".")
<1>3. n + 1 \in I /\ \A i \in I : i \in Nat /\ n + 1 <= i
    BY <1>1, <1>2
<1>4. dot = IF I # {} THEN Min(I) ELSE 0
    BY DEF FirstAt
<1> HIDE DEF I, dot, n
<1>5. dot = n + 1
    <2>1. \A x \in I : (\A y \in I : x <= y) => x = n + 1
        BY <1>1, <1>3
    <2> QED
        BY <1>3, <1>4, <2>1 DEF Min
<1>6. typeNameOf(key) = SubSeq(key, 1, n)
    <2>1. typeNameOf(key) = IF dot = 0 THEN key ELSE SubSeq(key, 1, dot - 1)
        BY DEF typeNameOf, dot
    <2> QED
        BY <1>1, <1>5, <2>1
<1>7. SubSeq(key, 1, n) = t
    <2> DEFINE x == SubSeq(key, 1, n)
    <2>1. n \in 0..Len(key)
        BY <1>1
    <2>2. x \in Seq(Char) /\ Len(x) = n /\ \A i \in 1..n : x[i] = key[i]
        BY <1>1, <2>1, FirstPart, Zenon
    <2> HIDE DEF x
    <2>3. x = t
        BY <1>1, <2>2, SeqEqual DEF n
    <2> QED
        BY <2>3 DEF x
<1>8. Len(t) # Len(key)
    BY <1>1 DEF n
<1> QED
    BY <1>6, <1>7, <1>8, Zenon DEF key

\* Which handler has the key of a message, or of all routes of its type.
LEMMA KeysOfHandlers ==
    ASSUME NEW c \in Clients, NEW h \in c.handlers, NEW m \in Sent
    PROVE  /\ BindingKey(h) = m.key <=> h.type = m.type /\ h.route = m.route
           /\ BindingKey(h) = m.type \o allRoutesSuffix <=> h.type = m.type /\ h.route = NoRoute
<1> DEFINE e == encodeRoute(m.route)
           any == <<"#">>
<1>1. /\ m.type \in Types /\ m.route \in Seq(STRING) /\ m.route # NoRoute
      /\ m.key = routedKey(m.type, m.route) /\ Words(m.key) = <<m.type, e>>
    BY SentKey
<1>2. /\ h.routed \in BOOLEAN /\ (h.type \in Types \/ h.route # NoRoute => h.routed)
      /\ h.route # NoRoute => h.route \in Seq(STRING)
      /\ m.type \in Seq(Char) /\ Dotless(m.type)
    BY <1>1, RoutingAssumption, TypeNames
<1>3. /\ Words(BindingKey(h)) = HandlerWords(h)
      /\ h.route # NoRoute => BindingKey(h) = routedKey(h.type, h.route)
      /\ h.route = NoRoute /\ h.routed => BindingKey(h) = h.type \o allRoutesSuffix
    BY HandlerKey
<1>4. Words(m.type \o allRoutesSuffix) = <<m.type, any>>
    BY <1>2, AllRoutesWords
<1>5. \A r \in Seq(STRING) : encodeRoute(r) # any /\ (encodeRoute(r) = e => r = m.route)
    BY <1>1, Codes, EncodeInjective
<1>6. ASSUME BindingKey(h) = m.key
      PROVE  h.type = m.type /\ h.route = m.route
    <2>1. HandlerWords(h) = <<m.type, e>> /\ e # any
        BY <1>1, <1>3, <1>5, <1>6
    <2> HIDE DEF e, any
    <2>2. h.route # NoRoute
        BY <2>1 DEF HandlerWords, any
    <2> QED
        BY <1>2, <1>5, <2>1, <2>2 DEF HandlerWords
<1>7. ASSUME BindingKey(h) = m.type \o allRoutesSuffix
      PROVE  h.type = m.type /\ h.route = NoRoute
    <2>1. HandlerWords(h) = <<m.type, any>>
        BY <1>3, <1>4, <1>7
    <2>2. CASE h.route # NoRoute
        <3>1. encodeRoute(h.route) = any
            BY <2>1, <2>2 DEF HandlerWords
        <3> QED
            BY <1>2, <1>5, <2>2, <3>1
    <2>3. CASE h.route = NoRoute
        BY <2>1, <2>3 DEF HandlerWords
    <2> QED
        BY <2>2, <2>3
<1> QED
    BY <1>1, <1>2, <1>3, <1>6, <1>7, Zenon

\* What the broker routes to a client because of a subscription has a handler there, a
\* route's own before the one of the type, and nothing else has one (consumer.go:244-270).
THEOREM RoutedIsHandled == TopologySpec => []HandledAsBound
<1>1. TopologyInv => HandledAsBound
    <2> SUFFICES ASSUME TopologyInv, NEW c \in accepted, NEW m \in Sent, NEW x \in broker.exchanges
                 PROVE  LET matching == {h \in c.handlers : h.exchange = x /\ TopicMatches(BindingKey(h), m.key)}
                            own == {h \in matching : h.route # NoRoute}
                            found == handlerFor({[exchange |-> h.exchange, key |-> BindingKey(h)] : h \in c.handlers},
                                                x, m.key)
                        IN  /\ matching = {} => found = NoHandler
                            /\ matching # {} => found \in {[exchange |-> x, key |-> BindingKey(h)]
                                                            : h \in IF own = {} THEN matching ELSE own}
        BY Zenon DEF HandledAsBound
    <2> DEFINE matching == {h \in c.handlers : h.exchange = x /\ TopicMatches(BindingKey(h), m.key)}
               own == {h \in matching : h.route # NoRoute}
               Entry(h) == [exchange |-> h.exchange, key |-> BindingKey(h)]
               entries == {Entry(h) : h \in c.handlers}
               Key(k) == [exchange |-> x, key |-> k]
               exact == Key(m.key)
               all == Key(m.type \o allRoutesSuffix)
               found == handlerFor(entries, x, m.key)
    <2>1. c \in Clients
        BY DEF TopologyInv
    <2>2. m.route # NoRoute /\ \A h \in c.handlers :
              /\ TopicMatches(BindingKey(h), m.key) <=> h.type = m.type /\ h.route \in {NoRoute, m.route}
              /\ BindingKey(h) = m.key <=> h.type = m.type /\ h.route = m.route
              /\ BindingKey(h) = m.type \o allRoutesSuffix <=> h.type = m.type /\ h.route = NoRoute
        BY <2>1, MatchesAsWanted, KeysOfHandlers, SentKey DEF Wants
    <2>3. \A h \in c.handlers : \A k : Entry(h) = Key(k) <=> h.exchange = x /\ BindingKey(h) = k
        OBVIOUS
    <2>4. typeNameOf(m.key) = m.type /\ m.type # m.key
        <3>1. m.type \in Seq(Char) /\ Dotless(m.type) /\ m.route \in Seq(STRING)
              /\ m.key = m.type \o <<".">> \o encodeRoute(m.route)
            BY SentKey, RoutingAssumption, TypeNames, Zenon DEF routedKey
        <3> QED
            BY <3>1, Codes, TypeNameOfKey, Zenon
    <2>5. found = IF exact \in entries THEN exact ELSE IF all \in entries THEN all ELSE NoHandler
        BY <2>4, Zenon DEF handlerFor
    <2> HIDE DEF Entry, Key, found
    <2>6. exact \in entries <=> \E h \in c.handlers : h.exchange = x /\ h.type = m.type /\ h.route = m.route
        BY <2>2, <2>3
    <2>7. all \in entries <=> \E h \in c.handlers : h.exchange = x /\ h.type = m.type /\ h.route = NoRoute
        BY <2>2, <2>3, Zenon
    <2>8. \A h : h \in matching <=> /\ h \in c.handlers /\ h.exchange = x /\ h.type = m.type
                                    /\ h.route \in {NoRoute, m.route}
        BY <2>2
    <2>9. matching = {} => found = NoHandler
        BY <2>5, <2>6, <2>7, <2>8, Zenon
    <2>10. ASSUME matching # {}
           PROVE  \E h \in (IF own = {} THEN matching ELSE own) : found = Key(BindingKey(h))
        <3>1. CASE exact \in entries
            <4>1. PICK h \in c.handlers : h.exchange = x /\ h.type = m.type /\ h.route = m.route
                BY <2>6, <3>1
            <4>2. h \in own /\ BindingKey(h) = m.key
                BY <2>2, <2>8, <4>1
            <4> QED
                BY <2>5, <3>1, <4>2
        <3>2. CASE exact \notin entries
            <4>1. own = {}
                BY <2>2, <2>6, <2>8, <3>2
            <4>2. PICK h \in matching : TRUE
                BY <2>10
            <4>3. h \in c.handlers /\ h.exchange = x /\ h.type = m.type /\ h.route = NoRoute
                BY <2>8, <4>1, <4>2, Zenon
            <4>4. all \in entries /\ BindingKey(h) = m.type \o allRoutesSuffix
                BY <2>2, <2>7, <4>3
            <4> QED
                BY <2>5, <3>2, <4>1, <4>2, <4>4, Zenon
        <3> QED
            BY <3>1, <3>2
    <2> QED
        BY <2>9, <2>10, Zenon DEF Entry, Key, found
<1> QED
    BY <1>1, TopologyInductive, PTL

-----------------------------------------------------------------------------
(* Keys of the store                                                       *)

\* What is written in keys, as sequences of characters.
LEMMA NamesOfKeys ==
    ASSUME NEW c \in Clients
    PROVE  Named(c.setup) /\ cacheScope(c.setup) \in Seq(KeyChar)
<1>1. /\ c.setup.appName \in Seq(STRING) /\ c.setup.exchangeName \in Seq(STRING)
      /\ c.setup.queueName \in Seq(STRING) /\ c.setup.isConsumer \in BOOLEAN
    BY KeysAssumption, NamesAssumption DEF Built
<1>2. STRING \subseteq KeyChar
    BY DEF KeyChar
<1>3. Named(c.setup)
    BY <1>1, <1>2, SeqMonotonic, Zenon DEF Named
<1> QED
    BY <1>3, ScopeText

LEMMA IdsOfKeys ==
    ASSUME NEW id \in MsgIDs
    PROVE  id \in Seq(KeyChar) /\ Colonless(id) /\ \A i \in 1..Len(id) : id[i] # "*"
<1>1. id \in Seq(STRING) /\ Range(id) \cap {":", "*"} = {}
    BY KeysAssumption
<1>2. STRING \subseteq KeyChar
    BY DEF KeyChar
<1>3. id \in Seq(KeyChar)
    BY <1>1, <1>2, SeqMonotonic, Zenon
<1>4. \A i \in 1..Len(id) : id[i] # ":" /\ id[i] # "*"
    BY <1>1 DEF Range
<1> QED
    BY <1>3, <1>4 DEF Colonless

\* The id that replicas reserve a message by comes back out of its key, whatever the
\* names in the key (common.go:173-183).
THEOREM ReplicasAgreeOnIds == TopologySpec => []IdOfKey
<1>1. TopologyInv => IdOfKey
    <2> SUFFICES ASSUME TopologyInv, NEW c \in accepted, NEW id \in MsgIDs
                 PROVE  msgIDFromCacheKey(cacheKey(cacheScope(c.setup), id)) = id
        BY DEF IdOfKey
    <2> DEFINE scope == cacheScope(c.setup)
               prefix == cachedMessagePrefix
    <2>1. c \in Clients
        BY DEF TopologyInv
    <2>2. scope \in Seq(KeyChar) /\ id \in Seq(KeyChar) /\ Colonless(id) /\ prefix \in Seq(KeyChar)
        <3>1. scope \in Seq(KeyChar)
            BY <2>1, NamesOfKeys
        <3>2. id \in Seq(KeyChar) /\ Colonless(id)
            BY IdsOfKeys
        <3>3. prefix \in Seq(KeyChar)
            BY KeyPrefixes DEF HasPrefix
        <3> QED
            BY <3>1, <3>2, <3>3
    <2> HIDE DEF scope, prefix
    <2>3. Joined(prefix, scope) \in Seq(KeyChar)
        BY <2>2, JoinedParts
    <2>4. cacheKey(scope, id) = Joined(Joined(prefix, scope), id)
        BY <2>2, JoinedTwice DEF cacheKey, prefix
    <2>5. msgIDFromCacheKey(cacheKey(scope, id)) = id
        BY <2>2, <2>3, <2>4, IdAfterLast
    <2> QED
        BY <2>5 DEF scope
<1> QED
    BY <1>1, TopologyInductive, PTL

-----------------------------------------------------------------------------
(* What a listing of the store has                                         *)

LEMMA PlainNames ==
    ASSUME NEW c \in Clients, Plain(c.setup)
    PROVE  PlainNamed(c.setup)
<1> SUFFICES ASSUME NEW name \in {c.setup.appName, c.setup.exchangeName, c.setup.queueName}
             PROVE  Colonless(name) /\ Literal(name)
    BY DEF PlainNamed
<1>1. name \in Seq(KeyChar) /\ Range(name) \cap {":", "*", "?"} = {}
    BY NamesOfKeys DEF Plain, Named
<1>2. ASSUME NEW i \in 1..Len(name) PROVE name[i] \notin {":", "*", "?"}
    <2>1. name[i] \in Range(name)
        BY <1>1 DEF Range
    <2> QED
        BY <1>1, <2>1
<1> QED
    BY <1>2 DEF Colonless, Literal

LEMMA BindingKeyText ==
    ASSUME NEW c \in Clients, NEW h \in c.handlers
    PROVE  BindingKey(h) \in Seq(KeyChar)
<1> SUFFICES BindingKey(h) \in Seq(Char)
    BY SeqMonotonic, Char \subseteq KeyChar DEF KeyChar, Char
<1>1. /\ h.type \in Seq(Char) /\ h.routed \in BOOLEAN
      /\ h.route # NoRoute => h.route \in Seq(STRING)
    BY RoutingAssumption, TypeNames
<1>2. /\ h.route # NoRoute => BindingKey(h) = routedKey(h.type, h.route)
      /\ h.route = NoRoute /\ h.routed => BindingKey(h) = h.type \o allRoutesSuffix
    BY HandlerKey
<1>3. CASE h.route # NoRoute
    <2> DEFINE e == encodeRoute(h.route)
    <2>1. e \in Seq(Char)
        BY <1>1, <1>3, Codes
    <2>2. h.type \o <<".">> \o e \in Seq(Char)
        BY <1>1, <2>1, KeyParts
    <2> QED
        BY <1>2, <1>3, <2>2, Zenon DEF routedKey
<1>4. CASE h.route = NoRoute /\ h.routed
    <2>1. allRoutesSuffix \in Seq(Char)
        BY DEF allRoutesSuffix, Char
    <2> QED
        BY <1>1, <1>2, <1>4, <2>1, ConcatProperties, Zenon
<1>5. CASE h.route = NoRoute /\ ~h.routed
    BY <1>1, <1>5 DEF BindingKey, Subscribe
<1> QED
    BY <1>1, <1>3, <1>4, <1>5

\* The keys of a client, by their kind.
LEMMA KeysOfClients ==
    ASSUME NEW c \in Clients
    PROVE  /\ \A key \in MessageKeys(c.setup) : \E x \in Seq(KeyChar) :
                 /\ Len(x) > 0 => x[1] # "*"
                 /\ key = Base(cachedMessagePrefix, cacheScope(c.setup)) \o x
           /\ \A key \in LeaseKeys(c.setup) : \E x \in Seq(KeyChar) :
                 key = Base(publishLeasePrefix, cacheScope(c.setup)) \o x
           /\ \A key \in InfoKeys(c) : \E x \in Seq(KeyChar) :
                 /\ Len(x) > 0 => x[1] # "*"
                 /\ key = Base(handlerInfoCachePrefix, cacheScope(c.setup)) \o x
           /\ messageGlob(cacheScope(c.setup)) = Base(cachedMessagePrefix, cacheScope(c.setup)) \o <<"*">>
           /\ handlerInfoGlob(cacheScope(c.setup)) = Base(handlerInfoCachePrefix, cacheScope(c.setup)) \o <<"*">>
<1> DEFINE scope == cacheScope(c.setup)
           star == <<"*">>
<1>1. scope \in Seq(KeyChar)
    BY NamesOfKeys
<1>2. /\ cachedMessagePrefix \in Seq(KeyChar) /\ publishLeasePrefix \in Seq(KeyChar)
      /\ handlerInfoCachePrefix \in Seq(KeyChar)
    BY KeyPrefixes DEF HasPrefix
<1>3. star \in Seq(KeyChar)
    BY DEF KeyChar
<1> HIDE DEF scope, star
<1>4. handlerInfoGlob(scope) = Base(handlerInfoCachePrefix, scope) \o star
    BY <1>1, <1>2, <1>3, BaseThen, Zenon DEF handlerInfoGlob, star
<1>5. messageGlob(scope) = Base(cachedMessagePrefix, scope) \o star
    BY DEF messageGlob, cacheKey, Base, star
<1>6. ASSUME NEW key \in MessageKeys(c.setup)
      PROVE  \E x \in Seq(KeyChar) : (Len(x) > 0 => x[1] # "*") /\ key = Base(cachedMessagePrefix, scope) \o x
    <2>1. PICK id \in MsgIDs : key = Joined(cachedMessagePrefix, Joined(scope, id))
        BY DEF MessageKeys, cacheKey, scope
    <2>2. id \in Seq(KeyChar) /\ \A i \in 1..Len(id) : id[i] # "*"
        BY IdsOfKeys
    <2>3. Len(id) > 0 => id[1] # "*"
        BY <2>2
    <2>4. key = Base(cachedMessagePrefix, scope) \o id
        BY <1>1, <1>2, <2>1, <2>2, BaseThen, Zenon
    <2> QED
        BY <2>2, <2>3, <2>4
<1>7. ASSUME NEW key \in LeaseKeys(c.setup)
      PROVE  \E x \in Seq(KeyChar) : key = Base(publishLeasePrefix, scope) \o x
    <2>1. PICK id \in MsgIDs : key = Joined(publishLeasePrefix, Joined(scope, id))
        BY DEF LeaseKeys, leaseKey, scope
    <2>2. id \in Seq(KeyChar)
        BY IdsOfKeys
    <2> QED
        BY <1>1, <1>2, <2>1, <2>2, BaseThen, Zenon
<1>8. ASSUME NEW key \in InfoKeys(c)
      PROVE  \E x \in Seq(KeyChar) : (Len(x) > 0 => x[1] # "*") /\ key = Base(handlerInfoCachePrefix, scope) \o x
    <2>1. PICK h \in c.handlers :
              key = Joined(handlerInfoCachePrefix, Joined(scope, Joined(h.exchange, BindingKey(h))))
        BY DEF InfoKeys, handlerInfoCacheKey, scope
    <2>2. BindingKey(h) \in Seq(KeyChar)
        BY BindingKeyText
    <2>3. h.exchange \in Seq(STRING) /\ "*" \notin Range(h.exchange)
        BY KeysAssumption
    <2>4. h.exchange \in Seq(KeyChar)
        <3>1. STRING \subseteq KeyChar
            BY DEF KeyChar
        <3> QED
            BY <2>3, <3>1, SeqMonotonic, Zenon
    <2> DEFINE e == h.exchange
               x == Joined(e, BindingKey(h))
    <2>5. /\ x \in Seq(KeyChar) /\ Len(e) \in Nat /\ x[Len(e) + 1] = ":"
          /\ \A i \in 1..Len(e) : x[i] = e[i]
        BY <2>2, <2>4, JoinedParts, Zenon
    <2>6. x[1] # "*"
        <3>1. CASE Len(e) = 0
            BY <2>5, <3>1
        <3>2. CASE Len(e) # 0
            <4>1. 1 \in 1..Len(e)
                BY <2>5, <3>2
            <4>2. x[1] = e[1] /\ e[1] \in Range(e)
                BY <2>4, <2>5, <4>1 DEF Range
            <4> QED
                BY <2>3, <4>2
        <3> QED
            BY <3>1, <3>2
    <2>7. key = Base(handlerInfoCachePrefix, scope) \o x
        <3> HIDE DEF x
        <3> QED
            BY <1>1, <1>2, <2>1, <2>5, BaseThen, Zenon DEF x
    <2> QED
        BY <2>5, <2>6, <2>7
<1> QED
    BY <1>4, <1>5, <1>6, <1>7, <1>8, Zenon DEF scope, star

\* Each client lists its own messages and handler infos, no lease, and nothing of another
\* scope if the names have no separator and no wildcard; publishers and consumers list
\* nothing of each other whatever the names (common.go:128-140, 163-171, lease.go:10-12,
\* consumer.go:406).
THEOREM ClientsListTheirOwn == TopologySpec => []ScopesApart
<1>1. TopologyInv => ScopesApart
    <2> SUFFICES ASSUME TopologyInv, NEW c \in accepted, NEW d \in accepted
                 PROVE  LET s == c.setup
                            t == d.setup
                            mine == cacheScope(s) = cacheScope(t)
                            apart == (Plain(s) /\ Plain(t)) \/ s.isConsumer # t.isConsumer
                            Lists(glob, key) == globMatch(glob, key)
                        IN  /\ \A key \in MessageKeys(t) :
                                  /\ mine => Lists(messageGlob(cacheScope(s)), key)
                                  /\ apart /\ ~mine => ~Lists(messageGlob(cacheScope(s)), key)
                                  /\ ~Lists(handlerInfoGlob(cacheScope(s)), key)
                            /\ \A key \in InfoKeys(d) :
                                  /\ mine => Lists(handlerInfoGlob(cacheScope(s)), key)
                                  /\ apart /\ ~mine => ~Lists(handlerInfoGlob(cacheScope(s)), key)
                                  /\ ~Lists(messageGlob(cacheScope(s)), key)
                            /\ \A key \in LeaseKeys(t) :
                                  /\ ~Lists(messageGlob(cacheScope(s)), key)
                                  /\ ~Lists(handlerInfoGlob(cacheScope(s)), key)
        BY Zenon DEF ScopesApart
    <2> DEFINE scope == cacheScope(c.setup)
               other == cacheScope(d.setup)
               apart == (Plain(c.setup) /\ Plain(d.setup)) \/ c.setup.isConsumer # d.setup.isConsumer
               M == cachedMessagePrefix
               L == publishLeasePrefix
               H == handlerInfoCachePrefix
               star == <<"*">>
    <2>1. c \in Clients /\ d \in Clients
        BY DEF TopologyInv
    <2>2. scope \in Seq(KeyChar) /\ other \in Seq(KeyChar)
        BY <2>1, NamesOfKeys
    <2>3. /\ HasPrefix(M, "m") /\ HasPrefix(L, "p") /\ HasPrefix(H, "h")
          /\ M \in Seq(KeyChar) /\ L \in Seq(KeyChar) /\ H \in Seq(KeyChar)
        BY KeyPrefixes DEF HasPrefix
    <2>4. messageGlob(scope) = Base(M, scope) \o star /\ handlerInfoGlob(scope) = Base(H, scope) \o star
        BY <2>1, KeysOfClients
    <2>5. ASSUME NEW p \in Seq(KeyChar), NEW pk, HasPrefix(p, pk), pk \notin {"*", "?"},
                 NEW x \in Seq(KeyChar), Len(x) > 0 => x[1] # "*"
          PROVE  /\ scope = other => globMatch(Base(p, scope) \o star, Base(p, other) \o x)
                 /\ apart /\ scope # other => ~globMatch(Base(p, scope) \o star, Base(p, other) \o x)
        <3>1. Named(c.setup) /\ Named(d.setup)
            BY <2>1, NamesOfKeys
        <3>2. apart => (PlainNamed(c.setup) /\ PlainNamed(d.setup)) \/ c.setup.isConsumer # d.setup.isConsumer
            BY <2>1, PlainNames
        <3> QED
            BY <2>5, <3>1, <3>2, Listing
    <2>6. ASSUME NEW p \in Seq(KeyChar), NEW q \in Seq(KeyChar), NEW pk, NEW qk,
                 HasPrefix(p, pk), HasPrefix(q, qk), pk # qk, pk \notin {"*", "?"}, NEW x \in Seq(KeyChar)
          PROVE  ~globMatch(Base(p, scope) \o star, Base(q, other) \o x)
        BY <2>2, <2>6, KindsApart
    <2>7. /\ \A key \in MessageKeys(d.setup) : \E x \in Seq(KeyChar) :
                (Len(x) > 0 => x[1] # "*") /\ key = Base(M, other) \o x
          /\ \A key \in LeaseKeys(d.setup) : \E x \in Seq(KeyChar) : key = Base(L, other) \o x
          /\ \A key \in InfoKeys(d) : \E x \in Seq(KeyChar) :
                (Len(x) > 0 => x[1] # "*") /\ key = Base(H, other) \o x
        BY <2>1, KeysOfClients, Zenon
    <2> HIDE DEF scope, other, apart, M, L, H, star
    <2>8. ASSUME NEW key \in MessageKeys(d.setup)
          PROVE  /\ scope = other => globMatch(messageGlob(scope), key)
                 /\ apart /\ scope # other => ~globMatch(messageGlob(scope), key)
                 /\ ~globMatch(handlerInfoGlob(scope), key)
        <3>1. PICK x \in Seq(KeyChar) : (Len(x) > 0 => x[1] # "*") /\ key = Base(M, other) \o x
            BY <2>7, Zenon
        <3>2. /\ scope = other => globMatch(Base(M, scope) \o star, key)
              /\ apart /\ scope # other => ~globMatch(Base(M, scope) \o star, key)
            BY <2>3, <2>5, <3>1, "m" \notin {"*", "?"}, Zenon
        <3>3. ~globMatch(Base(H, scope) \o star, key)
            BY <2>3, <2>6, <3>1, Zenon
        <3> QED
            BY <2>4, <3>2, <3>3
    <2>9. ASSUME NEW key \in InfoKeys(d)
          PROVE  /\ scope = other => globMatch(handlerInfoGlob(scope), key)
                 /\ apart /\ scope # other => ~globMatch(handlerInfoGlob(scope), key)
                 /\ ~globMatch(messageGlob(scope), key)
        <3>1. PICK x \in Seq(KeyChar) : (Len(x) > 0 => x[1] # "*") /\ key = Base(H, other) \o x
            BY <2>7
        <3>2. /\ scope = other => globMatch(Base(H, scope) \o star, key)
              /\ apart /\ scope # other => ~globMatch(Base(H, scope) \o star, key)
            BY <2>3, <2>5, <3>1, "h" \notin {"*", "?"}, Zenon
        <3>3. ~globMatch(Base(M, scope) \o star, key)
            BY <2>3, <2>6, <3>1, Zenon
        <3> QED
            BY <2>4, <3>2, <3>3
    <2>10. ASSUME NEW key \in LeaseKeys(d.setup)
           PROVE  ~globMatch(messageGlob(scope), key) /\ ~globMatch(handlerInfoGlob(scope), key)
        <3>1. PICK x \in Seq(KeyChar) : key = Base(L, other) \o x
            BY <2>7
        <3> QED
            BY <2>3, <2>4, <2>6, <3>1, Zenon
    <2> QED
        BY <2>8, <2>9, <2>10, Zenon DEF scope, other, apart
<1> QED
    BY <1>1, TopologyInductive, PTL
=============================================================================

