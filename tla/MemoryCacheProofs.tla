------------------------- MODULE MemoryCacheProofs -------------------------
(* memoryCache implements the Cache the clients rely on, for every set of   *)
(* keys, values and ttls, and lists the keys that a pattern covers.         *)
EXTENDS MemoryCache, WellFoundedInduction, SequenceTheorems, TLAPS

LEMMA InitType == Init => TypeOK
BY DEF Init, TypeOK

LEMMA NextType == TypeOK /\ [Next]_vars => TypeOK'
<1> SUFFICES ASSUME TypeOK, [Next]_vars PROVE TypeOK'
  OBVIOUS
<1> USE DEF TypeOK
<1>0. /\ keptData \in [Keys -> Vals \cup {Absent}]
      /\ keptExpiry \in [Keys -> Nat]
  BY DEF keptData, keptExpiry
<1>1. ASSUME NEW k \in Keys, NEW v \in Vals, NEW ttl \in TTLs, Set(k, v, ttl)
      PROVE  TypeOK'
  BY <1>0, <1>1, MemoryAssumption DEF Set, store
<1>2. ASSUME NEW k \in Keys, NEW v \in Vals, NEW ttl \in TTLs, SetIfAbsent(k, v, ttl)
      PROVE  TypeOK'
  BY <1>0, <1>2, MemoryAssumption DEF SetIfAbsent, store
<1>3. ASSUME NEW k \in Keys, Get(k) PROVE TypeOK'
  BY <1>3 DEF Get
<1>4. ASSUME NEW pattern \in Patterns, GetAllKeys(pattern) PROVE TypeOK'
  BY <1>0, <1>4 DEF GetAllKeys
<1>5. ASSUME NEW K \in SUBSET Keys, Delete(K) PROVE TypeOK'
  BY <1>5 DEF Delete
<1>6. CASE Tick
  BY <1>6 DEF Tick
<1>7. CASE UNCHANGED vars
  BY <1>7 DEF vars
<1> QED
  BY <1>1, <1>2, <1>3, <1>4, <1>5, <1>6, <1>7 DEF Next

\* The map under the mutex always holds values of its type.
THEOREM TypeCorrect == Spec => []TypeOK
BY InitType, NextType, PTL DEF Spec

-----------------------------------------------------------------------------

LEMMA InitImplements == Init => Promised!Init
BY DEF Init, Promised!Init, keptData, keptExpiry, expired

\* Evicting twice is evicting once: a fresh map has nothing expired in it.
LEMMA KeptIsFresh ==
    ASSUME TypeOK, NEW k \in Keys
    PROVE  ~(keptExpiry[k] # 0 /\ now > keptExpiry[k])
BY DEF TypeOK, keptExpiry, expired

\* A write over the evicted map is a write of the promised one.
LEMMA StoreImplements ==
    ASSUME TypeOK, NEW k \in Keys, NEW v \in Vals, NEW ttl \in TTLs,
           store(k, v, ttl), UNCHANGED now
    PROVE  Promised!Write(k, v, ttl)
<1>1. ttl \in Nat
  BY MemoryAssumption
<1>2. \A j \in Keys : ~expired(j)'
  BY <1>1, KeptIsFresh DEF store, expired, TypeOK, keptExpiry, keptData
<1>3. keptData' = data' /\ keptExpiry' = expiresAt'
  BY <1>2 DEF keptData, keptExpiry, store
<1> QED
  BY <1>3 DEF Promised!Write, Promised!Deadline, store

LEMMA EvictImplements ==
    ASSUME TypeOK, data' = keptData, expiresAt' = keptExpiry, UNCHANGED now
    PROVE  keptData' = keptData /\ keptExpiry' = keptExpiry
<1>1. \A j \in Keys : ~expired(j)'
  BY KeptIsFresh DEF expired
<1> QED
  BY <1>1 DEF keptData, keptExpiry

LEMMA NextImplements == TypeOK /\ [Next]_vars => [Promised!Next]_(Promised!vars)
<1> SUFFICES ASSUME TypeOK, [Next]_vars PROVE [Promised!Next]_(Promised!vars)
  OBVIOUS
<1>1. ASSUME NEW k \in Keys, NEW v \in Vals, NEW ttl \in TTLs, Set(k, v, ttl)
      PROVE  Promised!Next
  BY <1>1, StoreImplements DEF Set, Promised!Next, Promised!Set
<1>2. ASSUME NEW k \in Keys, NEW v \in Vals, NEW ttl \in TTLs, SetIfAbsent(k, v, ttl)
      PROVE  Promised!Next
  <2>1. CASE keptData[k] = Absent
    BY <1>2, <2>1, StoreImplements DEF SetIfAbsent, Promised!Next, Promised!SetIfAbsent
  <2>2. CASE keptData[k] # Absent
    BY <1>2, <2>2, EvictImplements DEF SetIfAbsent, Promised!Next, Promised!SetIfAbsent
  <2> QED
    BY <2>1, <2>2
<1>3. ASSUME NEW k \in Keys, Get(k) PROVE Promised!Next
  <2>1. keptData' = keptData /\ keptExpiry' = keptExpiry
    BY <1>3 DEF Get, keptData, keptExpiry, expired
  <2> QED
    BY <1>3, <2>1 DEF Get, Promised!Next, Promised!Get, keptData
<1>4. ASSUME NEW pattern \in Patterns, GetAllKeys(pattern) PROVE Promised!Next
  <2> DEFINE matching == {k \in Keys : globMatch(pattern, k)}
  <2>1. {k \in Keys : keptData[k] # Absent /\ globMatch(pattern, k)}
          = {k \in matching : keptData[k] # Absent}
    OBVIOUS
  <2>2. Promised!GetAllKeys(matching)
    BY <1>4, <2>1, EvictImplements DEF GetAllKeys, Promised!GetAllKeys
  <2> QED
    BY <2>2 DEF Promised!Next
<1>5. ASSUME NEW K \in SUBSET Keys, Delete(K) PROVE Promised!Next
  <2>1. /\ keptData' = [k \in Keys |-> IF k \in K THEN Absent ELSE keptData[k]]
        /\ keptExpiry' = [k \in Keys |-> IF k \in K THEN 0 ELSE keptExpiry[k]]
    BY <1>5 DEF Delete, keptData, keptExpiry, expired, TypeOK
  <2> QED
    BY <1>5, <2>1 DEF Delete, Promised!Next, Promised!Delete
<1>6. CASE Tick
  <2>1. ASSUME NEW k \in Keys
        PROVE  /\ ~Promised!Over(k) => keptData'[k] = keptData[k]
               /\ ~Promised!Over(k) => keptExpiry'[k] = keptExpiry[k]
               /\ Promised!Over(k) => keptData'[k] = Absent /\ keptExpiry'[k] = 0
    BY <1>6, <2>1 DEF Tick, keptData, keptExpiry, expired, TypeOK, Promised!Over
  <2>2. /\ keptData' = [k \in Keys |-> IF Promised!Over(k) THEN Absent ELSE keptData[k]]
        /\ keptExpiry' = [k \in Keys |-> IF Promised!Over(k) THEN 0 ELSE keptExpiry[k]]
    BY <2>1 DEF keptData, keptExpiry
  <2> QED
    BY <1>6, <2>2 DEF Tick, Promised!Next, Promised!Tick
<1>7. CASE UNCHANGED vars
  BY <1>7 DEF vars, Promised!vars, keptData, keptExpiry, expired
<1> QED
  BY <1>1, <1>2, <1>3, <1>4, <1>5, <1>6, <1>7 DEF Next

\* memoryCache keeps the promises of the Cache interface: lazy eviction is never
\* visible to a caller, whatever the keys, ttls and order of calls.
THEOREM Implementation == Spec => ImplementsCache
BY InitImplements, NextImplements, TypeCorrect, PTL DEF Spec, ImplementsCache, Promised!Spec

-----------------------------------------------------------------------------
(* Induction                                                               *)

\* A set of naturals that is not empty has a least element.
LEMMA Least ==
    ASSUME NEW T \in SUBSET Nat, T # {}
    PROVE  \E x \in T : \A y \in T : x <= y
<1> DEFINE Less == OpToRel(<, Nat)
<1>1. \A x, y \in Nat : <<x, y>> \in Less <=> x < y
    BY DEF OpToRel
<1>2. IsWellFoundedOn(Less, Nat)
    BY NatLessThanWellFounded
<1> HIDE DEF Less
<1>3. PICK x \in T : \A y \in T : <<y, x>> \notin Less
    BY <1>2, WFMin, Zenon
<1>4. ASSUME NEW y \in T
      PROVE  x <= y
    <2>1. x \in Nat /\ y \in Nat /\ ~(y < x)
        BY <1>1, <1>3
    <2> QED
        BY <2>1
<1> QED
    BY <1>4

\* A set that has 0 and with every number the next one has all of them.
LEMMA Induction ==
    ASSUME NEW T, 0 \in T, \A n \in Nat : n \in T => n + 1 \in T
    PROVE  \A n \in Nat : n \in T
<1> DEFINE U == {n \in Nat : n \notin T}
<1> SUFFICES ASSUME U # {} PROVE FALSE
    OBVIOUS
<1>1. PICK x \in U : \A y \in U : x <= y
    BY Least, U \in SUBSET Nat
<1>2. x - 1 \in Nat /\ x - 1 \notin U
    BY <1>1
<1> QED
    BY <1>2, x = (x - 1) + 1


\* f[0] is first, and each step makes the next value from the one before.
Follows(f, n, first, step) == f[0] = first /\ \A i \in 1..n : f[i] = step[i][f[i - 1]]

\* A function that is defined along the naturals exists.
LEMMA Recursion ==
    ASSUME NEW S, NEW n \in Nat, NEW first \in S, NEW step \in [1..n -> [S -> S]]
    PROVE  \E f \in [0..n -> S] : Follows(f, n, first, step)
<1> DEFINE Solves(f, m) == f[0] = first /\ \A i \in 1..m : f[i] = step[i][f[i - 1]]
           Solved == {m \in Nat : m <= n => \E f \in [0..m -> S] : Solves(f, m)}
<1>1. 0 \in Solved
    <2>1. [i \in 0..0 |-> first] \in [0..0 -> S] /\ Solves([i \in 0..0 |-> first], 0)
        OBVIOUS
    <2> QED
        BY <2>1
<1>2. ASSUME NEW m \in Nat, m + 1 <= n, NEW f \in [0..m -> S], Solves(f, m)
      PROVE  \E g \in [0..m + 1 -> S] : Solves(g, m + 1)
    <2> DEFINE g == [i \in 0..m + 1 |-> IF i <= m THEN f[i] ELSE step[m + 1][f[m]]]
    <2>1. step[m + 1] \in [S -> S] /\ f[m] \in S
        BY <1>2
    <2>2. g \in [0..m + 1 -> S]
        BY <2>1
    <2>3. \A i \in 1..m + 1 : g[i] = step[i][g[i - 1]]
        BY <1>2
    <2>4. g[0] = first
        BY <1>2
    <2> HIDE DEF g
    <2> QED
        BY <2>2, <2>3, <2>4
<1> HIDE DEF Solves
<1>3. \A m \in Nat : m \in Solved => m + 1 \in Solved
    BY <1>2
<1>4. \A m \in Nat : m \in Solved
    <2> HIDE DEF Solved
    <2> QED
        BY <1>1, <1>3, Induction
<1> QED
    BY <1>4 DEF Solves, Follows

-----------------------------------------------------------------------------
(* Recursion over a finite number of ranks                                 *)

\* What F makes of a function at d depends on the function at lower ranks only.
LooksDown(F, D, V, rank) ==
    \A f, g \in [D -> V], d \in D :
        (\A e \in D : rank[e] < rank[d] => f[e] = g[e]) => F[f][d] = F[g][d]

\* F defines a function by what it is at lower ranks, of which there are finitely many.
DefinesByRank(F, D, V, rank) ==
    /\ F \in [[D -> V] -> [D -> V]] /\ [D -> V] # {}
    /\ \E R \in Nat : rank \in [D -> 0..R]
    /\ LooksDown(F, D, V, rank)

HasFixedPoint(F, D, V) == \E f \in [D -> V] : F[f] = f

\* Such a function exists.
LEMMA FixedPoint ==
    ASSUME NEW D, NEW V, NEW F, NEW rank, DefinesByRank(F, D, V, rank)
    PROVE  HasFixedPoint(F, D, V)
<1>0. PICK R \in Nat, f0 \in [D -> V] :
          F \in [[D -> V] -> [D -> V]] /\ rank \in [D -> 0..R] /\ LooksDown(F, D, V, rank)
    BY DEF DefinesByRank
<1> DEFINE S == [D -> V]
           n == R + 2
           step == [i \in 1..n |-> F]
<1>1. f0 \in S /\ n \in Nat /\ step \in [1..n -> [S -> S]]
    BY <1>0
<1>2. \A i \in 1..n : step[i] = F
    OBVIOUS
<1> HIDE DEF S, n, step
<1>3. PICK f \in [0..n -> S] : Follows(f, n, f0, step)
    BY <1>1, Recursion
<1>4. \A i \in 1..n : f[i] = F[f[i - 1]]
    BY <1>2, <1>3 DEF Follows
<1>5. \A i \in 0..R + 1 : f[i] \in S /\ f[i + 1] \in S /\ f[i + 1] = F[f[i]]
    BY <1>3, <1>4 DEF n
<1> DEFINE T == {k \in Nat : k <= R + 1 => \A d \in D : rank[d] < k => f[k][d] = f[k + 1][d]}
<1>6. 0 \in T
    <2>1. \A d \in D : ~(rank[d] < 0)
        BY <1>0
    <2> QED
        BY <2>1
<1>7. ASSUME NEW k \in Nat, k \in T, k + 1 <= R + 1, NEW d \in D, rank[d] < k + 1
      PROVE  f[k + 1][d] = f[(k + 1) + 1][d]
    <2> DEFINE u == f[k]
               w == f[k + 1]
    <2>1. u \in S /\ w \in S /\ w = F[u] /\ f[(k + 1) + 1] = F[w]
        <3>1. k \in 0..R + 1 /\ k + 1 \in 0..R + 1
            BY <1>7
        <3> QED
            BY <1>5, <3>1
    <2>2. \A e \in D : rank[e] < rank[d] => u[e] = w[e]
        <3> SUFFICES ASSUME NEW e \in D, rank[e] < rank[d] PROVE u[e] = w[e]
            OBVIOUS
        <3>1. rank[e] \in Nat /\ rank[d] \in Nat
            BY <1>0
        <3>2. rank[e] < k /\ k <= R + 1
            BY <1>7, <3>1
        <3> QED
            BY <1>7, <3>2
    <2> HIDE DEF u, w
    <2>3. F[u][d] = F[w][d]
        BY <1>0, <2>1, <2>2 DEF LooksDown, S
    <2> QED
        BY <2>1, <2>3 DEF w
<1>8. \A k \in Nat : k \in T => k + 1 \in T
    BY <1>7
<1>9. R + 1 \in T
    <2> HIDE DEF T
    <2> QED
        BY <1>6, <1>8, Induction
<1> DEFINE u == f[R + 1]
<1>10. u \in S /\ F[u] \in S /\ \A d \in D : u[d] = F[u][d]
    <2>1. u \in S /\ F[u] \in S /\ f[(R + 1) + 1] = F[u]
        BY <1>5
    <2>2. \A d \in D : rank[d] < R + 1
        BY <1>0
    <2> QED
        BY <1>9, <2>1, <2>2
<1> HIDE DEF u
<1> QED
    BY <1>10 DEF S, HasFixedPoint

-----------------------------------------------------------------------------
(* The loop of globMatch                                                   *)

States(P, S) == [star : 0..P, from : 0..S, n : 0..S]

\* One turn of the loop, before f.
Turn(pattern, s, f, at) ==
    LET p == at.star + at.n
        i == at.from + at.n
    IN  IF i >= Len(s)
          THEN \A q \in p+1 .. Len(pattern) : pattern[q] = "*"
        ELSE IF p < Len(pattern) /\ pattern[p + 1] \in {s[i + 1], "?"}
          THEN f[At(at.star, at.from, at.n + 1)]
        ELSE IF p < Len(pattern) /\ pattern[p + 1] = "*"
          THEN f[At(p + 1, i, 0)]
        ELSE at.star > 0 /\ f[At(at.star, at.from + 1, 0)]

IsRun(pattern, s, run) ==
    run = [at \in States(Len(pattern), Len(s)) |-> Turn(pattern, s, run, at)]

\* How far the loop is from its end: to go back to the last star weighs more than all
\* that can be taken from there.
Weight(P, S, at) == (S + 1) * (S - at.from) + (P - at.star) + (S - at.n)

LEMMA Product ==
    ASSUME NEW A \in Nat, NEW x \in Nat, NEW y \in Nat
    PROVE  A * x \in Nat /\ A * (x + y) = A * x + A * y
OBVIOUS

LEMMA WeightNat ==
    ASSUME NEW P \in Nat, NEW S \in Nat, NEW at \in States(P, S)
    PROVE  Weight(P, S, at) \in 0..Weight(P, S, At(0, 0, 0))
<1> DEFINE A == S + 1
           x == S - at.from
           y == at.from
<1>1. A \in Nat /\ x \in Nat /\ y \in Nat /\ x + y = S /\ P - at.star \in 0..P /\ S - at.n \in 0..S
    BY DEF States
<1>2. /\ Weight(P, S, at) = A * x + (P - at.star) + (S - at.n)
      /\ Weight(P, S, At(0, 0, 0)) = A * S + P + S
    BY <1>1 DEF Weight, At
<1> HIDE DEF A, x, y
<1>3. A * x \in Nat /\ A * y \in Nat /\ A * S = A * x + A * y
    BY <1>1, Product
<1> QED
    BY <1>1, <1>2, <1>3

\* The three ways on.
LEMMA WeightFalls ==
    ASSUME NEW P \in Nat, NEW S \in Nat, NEW star \in 0..P, NEW from \in 0..S, NEW n \in 0..S,
           from + n < S
    PROVE  /\ At(star, from, n + 1) \in States(P, S)
           /\ Weight(P, S, At(star, from, n + 1)) < Weight(P, S, At(star, from, n))
           /\ At(star, from + 1, 0) \in States(P, S)
           /\ Weight(P, S, At(star, from + 1, 0)) < Weight(P, S, At(star, from, n))
           /\ star + n < P => /\ At(star + n + 1, from + n, 0) \in States(P, S)
                              /\ Weight(P, S, At(star + n + 1, from + n, 0))
                                    < Weight(P, S, At(star, from, n))
<1> DEFINE A == S + 1
           x == S - from
           y == S - (from + n)
           z == S - (from + 1)
<1>1. A \in Nat /\ x \in Nat /\ y \in Nat /\ z \in Nat /\ x = y + n /\ x = z + 1 /\ A = S + 1
    OBVIOUS
<1>2. /\ Weight(P, S, At(star, from, n)) = A * x + (P - star) + (S - n)
      /\ Weight(P, S, At(star, from, n + 1)) = A * x + (P - star) + (S - (n + 1))
      /\ Weight(P, S, At(star, from + 1, 0)) = A * z + (P - star) + (S - 0)
      /\ Weight(P, S, At(star + n + 1, from + n, 0)) = A * y + (P - (star + n + 1)) + (S - 0)
    BY DEF Weight, At
<1> HIDE DEF A, x, y, z
<1>3. A * x = A * y + A * n /\ A * y \in Nat /\ A * n \in Nat
    BY <1>1, Product
<1>4. A * x = A * z + A /\ A * z \in Nat
    BY <1>1, Product
<1>5. /\ Weight(P, S, At(star, from, n + 1)) < Weight(P, S, At(star, from, n))
      /\ Weight(P, S, At(star, from + 1, 0)) < Weight(P, S, At(star, from, n))
    BY <1>1, <1>2, <1>4
<1>6. Weight(P, S, At(star + n + 1, from + n, 0)) < Weight(P, S, At(star, from, n))
    BY <1>1, <1>2, <1>3
<1>7. /\ At(star, from, n + 1) \in States(P, S)
      /\ At(star, from + 1, 0) \in States(P, S)
      /\ star + n < P => At(star + n + 1, from + n, 0) \in States(P, S)
    BY DEF At, States
<1> QED
    BY <1>5, <1>6, <1>7

LEMMA AtParts ==
    ASSUME NEW P \in Nat, NEW S \in Nat, NEW at \in States(P, S)
    PROVE  /\ at.star \in 0..P /\ at.from \in 0..S /\ at.n \in 0..S
           /\ at = At(at.star, at.from, at.n)
BY DEF States, At

\* A turn looks at what weighs less, and answers yes or no if that does.
LEMMA TurnLooksDown ==
    ASSUME NEW pattern, NEW s, Len(pattern) \in Nat, Len(s) \in Nat,
           NEW D, D = States(Len(pattern), Len(s)),
           NEW f, NEW g, NEW at \in D,
           \A e \in D : Weight(Len(pattern), Len(s), e) < Weight(Len(pattern), Len(s), at)
                            => f[e] = g[e] /\ f[e] \in BOOLEAN
    PROVE  Turn(pattern, s, f, at) \in BOOLEAN /\ Turn(pattern, s, f, at) = Turn(pattern, s, g, at)
<1> DEFINE P == Len(pattern)
           S == Len(s)
           star == at.star
           from == at.from
           n == at.n
           B == \A q \in star + n + 1 .. P : pattern[q] = "*"
           C1 == star + n < P /\ pattern[star + n + 1] \in {s[from + n + 1], "?"}
           C2 == star + n < P /\ pattern[star + n + 1] = "*"
           e1 == At(star, from, n + 1)
           e2 == At(star + n + 1, from + n, 0)
           e3 == At(star, from + 1, 0)
<1>1. \A h : Turn(pattern, s, h, at) = IF from + n >= S THEN B ELSE IF C1 THEN h[e1] ELSE
                                       IF C2 THEN h[e2] ELSE star > 0 /\ h[e3]
    BY Zenon DEF Turn
<1>2. P \in Nat /\ S \in Nat /\ star \in 0..P /\ from \in 0..S /\ n \in 0..S
    BY AtParts
<1>3. at = At(star, from, n)
    BY AtParts
<1>4. B \in BOOLEAN
    OBVIOUS
<1>5. C2 => star + n < P
    OBVIOUS
<1>6. ASSUME ~(from + n >= S)
      PROVE  e1 \in D /\ e3 \in D /\ f[e1] = g[e1] /\ f[e3] = g[e3]
             /\ f[e1] \in BOOLEAN /\ f[e3] \in BOOLEAN
    BY <1>2, <1>3, <1>6, WeightFalls
<1>7. ASSUME ~(from + n >= S), C2
      PROVE  e2 \in D /\ f[e2] = g[e2] /\ f[e2] \in BOOLEAN
    <2>1. star + n < P /\ from + n < S
        BY <1>2, <1>5, <1>7
    <2>2. e2 \in D /\ Weight(P, S, e2) < Weight(P, S, at)
        BY <1>2, <1>3, <2>1, WeightFalls
    <2> HIDE DEF e2
    <2> QED
        BY <2>2
<1> HIDE DEF B, C1, C2, e1, e2, e3
<1>9. CASE from + n >= S
    BY <1>1, <1>4, <1>9
<1>10. CASE ~(from + n >= S) /\ C1
    BY <1>1, <1>6, <1>10
<1>11. CASE ~(from + n >= S) /\ ~C1 /\ C2
    BY <1>1, <1>7, <1>11
<1>12. CASE ~(from + n >= S) /\ ~C1 /\ ~C2
    BY <1>1, <1>6, <1>12
<1> QED
    BY <1>9, <1>10, <1>11, <1>12

\* The loop comes to an end, and what globMatch answers is what it comes to.
LEMMA RunOf ==
    ASSUME NEW pattern, NEW s, Len(pattern) \in Nat, Len(s) \in Nat
    PROVE  \E run \in [States(Len(pattern), Len(s)) -> BOOLEAN] :
               /\ globMatch(pattern, s) = run[At(0, 0, 0)]
               /\ \A at \in States(Len(pattern), Len(s)) : run[at] = Turn(pattern, s, run, at)
<1> DEFINE P == Len(pattern)
           S == Len(s)
           D == States(P, S)
           F == [f \in [D -> BOOLEAN] |-> [at \in D |-> Turn(pattern, s, f, at)]]
           R == Weight(P, S, At(0, 0, 0))
           rank == [at \in D |-> Weight(P, S, at)]
           f0 == [at \in D |-> TRUE]
<1> HIDE DEF D
<1>1. ASSUME NEW f \in [D -> BOOLEAN], NEW at \in D
      PROVE  Turn(pattern, s, f, at) \in BOOLEAN
    BY TurnLooksDown DEF D
<1>2. F \in [[D -> BOOLEAN] -> [D -> BOOLEAN]] /\ f0 \in [D -> BOOLEAN]
    BY <1>1
<1>3. \A f \in [D -> BOOLEAN] : F[f] = [at \in D |-> Turn(pattern, s, f, at)]
    OBVIOUS
<1>4. rank \in [D -> 0..R] /\ R \in Nat /\ \A at \in D : rank[at] = Weight(P, S, at)
    <2>1. At(0, 0, 0) \in D
        BY DEF D, States, At
    <2>2. \A at \in D : Weight(P, S, at) \in 0..R
        BY WeightNat DEF D
    <2>3. R \in Nat
        BY <2>1, <2>2
    <2> QED
        BY <2>2, <2>3
<1> HIDE DEF F, R, rank, f0
<1>5. LooksDown(F, D, BOOLEAN, rank)
    <2> SUFFICES ASSUME NEW f \in [D -> BOOLEAN], NEW g \in [D -> BOOLEAN], NEW d \in D,
                        \A e \in D : rank[e] < rank[d] => f[e] = g[e]
                 PROVE  F[f][d] = F[g][d]
        BY DEF LooksDown
    <2>1. Turn(pattern, s, f, d) = Turn(pattern, s, g, d)
        BY <1>4, TurnLooksDown DEF D
    <2>2. F[f][d] = Turn(pattern, s, f, d) /\ F[g][d] = Turn(pattern, s, g, d)
        BY <1>3, Zenon
    <2> QED
        BY <2>1, <2>2
<1>6. PICK g \in [D -> BOOLEAN] : F[g] = g
    <2>1. [D -> BOOLEAN] # {} /\ F \in [[D -> BOOLEAN] -> [D -> BOOLEAN]]
        BY <1>2
    <2>2. DefinesByRank(F, D, BOOLEAN, rank)
        BY <1>4, <1>5, <2>1 DEF DefinesByRank
    <2>3. HasFixedPoint(F, D, BOOLEAN)
        BY <2>2, FixedPoint
    <2> QED
        BY <2>3 DEF HasFixedPoint
<1>7. IsRun(pattern, s, g)
    BY <1>3, <1>6 DEF IsRun, D
<1> DEFINE run == CHOOSE h : IsRun(pattern, s, h)
<1>8. IsRun(pattern, s, run)
    BY <1>7, Zenon
<1>9. globMatch(pattern, s) = run[At(0, 0, 0)]
    BY Zenon DEF globMatch, IsRun, Turn, States
<1>10. \A at \in D : run[at] = Turn(pattern, s, run, at)
    BY <1>8 DEF IsRun, D
<1> HIDE DEF run
<1>11. \A at \in D : run[at] \in BOOLEAN
    <2> DEFINE bad == {at \in D : run[at] \notin BOOLEAN}
               T == {rank[at] : at \in bad}
    <2> SUFFICES ASSUME bad # {} PROVE FALSE
        OBVIOUS
    <2>1. T \in SUBSET Nat /\ T # {}
        BY <1>4
    <2>2. PICK x \in T : \A y \in T : x <= y
        <3> HIDE DEF T
        <3> QED
            BY <2>1, Least
    <2>3. PICK at \in bad : rank[at] = x
        BY <2>2
    <2>4. \A e \in D : rank[e] < rank[at] => run[e] \in BOOLEAN
        <3> SUFFICES ASSUME NEW e \in D, rank[e] < rank[at], run[e] \notin BOOLEAN PROVE FALSE
            OBVIOUS
        <3>1. rank[e] \in T
            OBVIOUS
        <3>2. rank[e] \in Nat /\ rank[at] \in Nat /\ x = rank[at]
            BY <1>4, <2>3
        <3> HIDE DEF T
        <3> QED
            BY <2>2, <3>1, <3>2
    <2>5. Turn(pattern, s, run, at) \in BOOLEAN
        <3>1. \A e \in D : Weight(Len(pattern), Len(s), e) < Weight(Len(pattern), Len(s), at)
                              => run[e] = run[e] /\ run[e] \in BOOLEAN
            BY <1>4, <2>3, <2>4
        <3> QED
            BY <2>3, <3>1, TurnLooksDown DEF D
    <2> QED
        BY <1>10, <2>3, <2>5
<1>12. run \in [D -> BOOLEAN]
    BY <1>8, <1>11 DEF IsRun, D
<1> QED
    BY <1>9, <1>10, <1>12 DEF D

-----------------------------------------------------------------------------
(* What a pattern covers                                                   *)

\* The nth character of the pattern stands for the text after a and up to b.
Piece(pattern, s, n, a, b) ==
    IF pattern[n] = "*" THEN b >= a ELSE b = a + 1 /\ pattern[n] \in {s[b], "?"}

CutsFrom(pattern, s, p, i, cut) ==
    /\ cut[p] = i /\ cut[Len(pattern)] = Len(s)
    /\ \A n \in p + 1 .. Len(pattern) : Piece(pattern, s, n, cut[n - 1], cut[n])

\* The pattern after p covers the text after i.
Rest(pattern, s, p, i) ==
    \E cut \in [p..Len(pattern) -> 0..Len(s)] : CutsFrom(pattern, s, p, i, cut)

Texts(pattern, s) == Len(pattern) \in Nat /\ Len(s) \in Nat

LEMMA CoversIsRest ==
    ASSUME NEW pattern, NEW s, Texts(pattern, s)
    PROVE  Covers(pattern, s) <=> Rest(pattern, s, 0, 0)
BY DEF Covers, Rest, CutsFrom, Piece, Texts

LEMMA RestEnd ==
    ASSUME NEW pattern, NEW s, Texts(pattern, s), NEW i \in 0..Len(s)
    PROVE  Rest(pattern, s, Len(pattern), i) <=> i = Len(s)
<1> DEFINE P == Len(pattern)
<1>1. ASSUME i = Len(s) PROVE Rest(pattern, s, P, i)
    <2> DEFINE cut == [n \in P..P |-> i]
    <2>1. cut \in [P..P -> 0..Len(s)] /\ CutsFrom(pattern, s, P, i, cut)
        BY <1>1 DEF CutsFrom, Texts
    <2> HIDE DEF cut
    <2> QED
        BY <2>1 DEF Rest
<1> QED
    BY <1>1 DEF Rest, CutsFrom

LEMMA RestStep ==
    ASSUME NEW pattern, NEW s, Texts(pattern, s), NEW p \in 0..Len(pattern) - 1, NEW i \in 0..Len(s)
    PROVE  Rest(pattern, s, p, i)
             <=> \E j \in 0..Len(s) : Piece(pattern, s, p + 1, i, j) /\ Rest(pattern, s, p + 1, j)
<1> DEFINE P == Len(pattern)
           S == Len(s)
<1>0. P \in Nat /\ S \in Nat /\ p \in Nat /\ p + 1 <= P
    BY DEF Texts
<1>1. ASSUME Rest(pattern, s, p, i)
      PROVE  \E j \in 0..S : Piece(pattern, s, p + 1, i, j) /\ Rest(pattern, s, p + 1, j)
    <2>1. PICK cut \in [p..P -> 0..S] : CutsFrom(pattern, s, p, i, cut)
        BY <1>1 DEF Rest
    <2> DEFINE j == cut[p + 1]
               cut1 == [n \in p + 1 .. P |-> cut[n]]
    <2>2. j \in 0..S /\ cut1 \in [p + 1 .. P -> 0..S]
        BY <1>0, <2>1
    <2>3. Piece(pattern, s, p + 1, i, j)
        BY <1>0, <2>1 DEF CutsFrom
    <2>4. CutsFrom(pattern, s, p + 1, j, cut1)
        BY <1>0, <2>1 DEF CutsFrom
    <2> HIDE DEF j, cut1
    <2> QED
        BY <2>2, <2>3, <2>4 DEF Rest
<1>2. ASSUME NEW j \in 0..S, Piece(pattern, s, p + 1, i, j), Rest(pattern, s, p + 1, j)
      PROVE  Rest(pattern, s, p, i)
    <2>1. PICK cut1 \in [p + 1 .. P -> 0..S] : CutsFrom(pattern, s, p + 1, j, cut1)
        BY <1>2 DEF Rest
    <2> DEFINE cut == [n \in p..P |-> IF n = p THEN i ELSE cut1[n]]
    <2>2. cut \in [p..P -> 0..S]
        BY <1>0, <2>1
    <2>3. CutsFrom(pattern, s, p, i, cut)
        <3>1. cut[p] = i /\ cut[P] = S /\ cut[p + 1] = j
            BY <1>0, <2>1 DEF CutsFrom
        <3>2. ASSUME NEW n \in p + 1 .. P
              PROVE  Piece(pattern, s, n, cut[n - 1], cut[n])
            <4>1. CASE n = p + 1
                BY <1>0, <1>2, <3>1, <4>1
            <4>2. CASE n # p + 1
                BY <1>0, <2>1, <4>2 DEF CutsFrom
            <4> QED
                BY <4>1, <4>2
        <3> QED
            BY <3>1, <3>2 DEF CutsFrom
    <2> HIDE DEF cut
    <2> QED
        BY <2>2, <2>3 DEF Rest
<1> QED
    BY <1>1, <1>2

LEMMA RestCharacter ==
    ASSUME NEW pattern, NEW s, Texts(pattern, s), NEW p \in 0..Len(pattern) - 1, NEW i \in 0..Len(s),
           pattern[p + 1] # "*"
    PROVE  Rest(pattern, s, p, i)
             <=> i < Len(s) /\ pattern[p + 1] \in {s[i + 1], "?"} /\ Rest(pattern, s, p + 1, i + 1)
BY RestStep DEF Piece, Texts

LEMMA RestStar ==
    ASSUME NEW pattern, NEW s, Texts(pattern, s), NEW p \in 0..Len(pattern) - 1, NEW i \in 0..Len(s),
           pattern[p + 1] = "*"
    PROVE  Rest(pattern, s, p, i) <=> \E j \in i..Len(s) : Rest(pattern, s, p + 1, j)
<1>1. \A j : j \in i..Len(s) <=> j \in 0..Len(s) /\ j >= i
    BY DEF Texts
<1> QED
    BY <1>1, RestStep DEF Piece

\* Only stars are left at the end of the text.
LEMMA RestOfNothing ==
    ASSUME NEW pattern, NEW s, Texts(pattern, s), NEW p \in 0..Len(pattern)
    PROVE  Rest(pattern, s, p, Len(s)) <=> \A q \in p + 1 .. Len(pattern) : pattern[q] = "*"
<1> DEFINE P == Len(pattern)
           S == Len(s)
           Stars(r) == \A q \in r + 1 .. P : pattern[q] = "*"
           T == {k \in Nat : k <= P => (Rest(pattern, s, P - k, S) <=> Stars(P - k))}
<1>0. P \in Nat /\ S \in Nat /\ S \in 0..S
    BY DEF Texts
<1>1. 0 \in T
    <2>1. Rest(pattern, s, P, S) /\ Stars(P) /\ P - 0 = P
        BY <1>0, RestEnd
    <2> QED
        BY <2>1
<1>2. ASSUME NEW k \in Nat, k \in T, k + 1 <= P
      PROVE  Rest(pattern, s, P - (k + 1), S) <=> Stars(P - (k + 1))
    <2> DEFINE r == P - (k + 1)
    <2>1. r \in 0..P - 1 /\ P - k = r + 1
        BY <1>0, <1>2
    <2>2. Rest(pattern, s, r + 1, S) <=> Stars(r + 1)
        BY <1>2, <2>1
    <2>3. Stars(r) <=> pattern[r + 1] = "*" /\ Stars(r + 1)
        BY <1>0, <2>1
    <2> HIDE DEF r, Stars
    <2>4. CASE pattern[r + 1] # "*"
        BY <1>0, <2>1, <2>3, <2>4, RestCharacter
    <2>5. CASE pattern[r + 1] = "*"
        <3>1. \A j : j \in S..S <=> j = S
            BY <1>0
        <3>2. Rest(pattern, s, r, S) <=> \E j \in S..S : Rest(pattern, s, r + 1, j)
            BY <1>0, <2>1, <2>5, RestStar
        <3>3. Rest(pattern, s, r, S) <=> Rest(pattern, s, r + 1, S)
            BY <3>1, <3>2, Zenon
        <3>4. Rest(pattern, s, r, S) <=> Stars(r)
            BY <2>2, <2>3, <2>5, <3>3
        <3> QED
            BY <3>4 DEF r
    <2> QED
        BY <2>4, <2>5 DEF r
<1>3. \A k \in Nat : k \in T => k + 1 \in T
    <2> HIDE DEF Stars
    <2> QED
        BY <1>2
<1>4. \A k \in Nat : k \in T
    <2> HIDE DEF T
    <2> QED
        BY <1>1, <1>3, Induction
<1>5. P - p \in Nat /\ P - p <= P /\ P - (P - p) = p
    BY <1>0
<1> QED
    BY <1>4, <1>5

-----------------------------------------------------------------------------
(* The loop goes back to the last star only                                *)

\* n characters of the pattern after p, none of them a star, stand for those of the
\* text after i.
Taken(pattern, s, p, i, n) ==
    \A m \in 1..n : pattern[p + m] # "*" /\ pattern[p + m] \in {s[i + m], "?"}

\* They can only be matched with as many characters.
LEMMA RestSkips ==
    ASSUME NEW pattern, NEW s, Texts(pattern, s), NEW p \in Nat, NEW i \in Nat, i <= Len(s),
           NEW n \in Nat, p + n <= Len(pattern), \A m \in 1..n : pattern[p + m] # "*",
           Rest(pattern, s, p, i)
    PROVE  i + n <= Len(s) /\ Rest(pattern, s, p + n, i + n)
<1> DEFINE T == {k \in Nat : k <= n => i + k <= Len(s) /\ Rest(pattern, s, p + k, i + k)}
<1>0. Len(pattern) \in Nat /\ Len(s) \in Nat
    BY DEF Texts
<1>1. 0 \in T
    <2>1. p + 0 = p /\ i + 0 = i
        OBVIOUS
    <2> QED
        BY <2>1
<1>2. ASSUME NEW k \in Nat, k \in T, k + 1 <= n
      PROVE  i + (k + 1) <= Len(s) /\ Rest(pattern, s, p + (k + 1), i + (k + 1))
    <2> DEFINE a == p + k
               b == i + k
    <2>1. a \in 0..Len(pattern) - 1 /\ b \in 0..Len(s) /\ Rest(pattern, s, a, b)
        BY <1>0, <1>2
    <2>2. pattern[a + 1] # "*" /\ p + (k + 1) = a + 1 /\ i + (k + 1) = b + 1
        <3>1. k + 1 \in 1..n /\ p + (k + 1) = a + 1 /\ i + (k + 1) = b + 1
            BY <1>2
        <3> QED
            BY <3>1
    <2> HIDE DEF a, b
    <2>3. b < Len(s) /\ Rest(pattern, s, a + 1, b + 1)
        BY <2>1, <2>2, RestCharacter
    <2> QED
        BY <1>0, <2>1, <2>2, <2>3
<1>3. \A k \in Nat : k \in T => k + 1 \in T
    BY <1>2
<1>4. n \in T
    <2> HIDE DEF T
    <2> QED
        BY <1>1, <1>3, Induction
<1> QED
    BY <1>4

\* What was taken can be put back.
LEMMA RestTaken ==
    ASSUME NEW pattern, NEW s, Texts(pattern, s), NEW p \in Nat, NEW i \in Nat,
           NEW n \in Nat, p + n <= Len(pattern), i + n <= Len(s), Taken(pattern, s, p, i, n),
           Rest(pattern, s, p + n, i + n)
    PROVE  Rest(pattern, s, p, i)
<1> DEFINE T == {k \in Nat : k <= n => Rest(pattern, s, p + (n - k), i + (n - k))}
<1>0. Len(pattern) \in Nat /\ Len(s) \in Nat
    BY DEF Texts
<1>1. 0 \in T
    <2>1. n - 0 = n
        OBVIOUS
    <2> QED
        BY <2>1
<1>2. ASSUME NEW k \in Nat, k \in T, k + 1 <= n
      PROVE  Rest(pattern, s, p + (n - (k + 1)), i + (n - (k + 1)))
    <2> DEFINE m == n - k
               a == p + (n - (k + 1))
               b == i + (n - (k + 1))
    <2>1. /\ a \in 0..Len(pattern) - 1 /\ b \in 0..Len(s) /\ b < Len(s) /\ m \in 1..n
          /\ p + m = a + 1 /\ i + m = b + 1
        BY <1>0, <1>2
    <2>2. Rest(pattern, s, p + m, i + m)
        BY <1>2
    <2>3. pattern[p + m] # "*" /\ pattern[p + m] \in {s[i + m], "?"}
        BY <2>1 DEF Taken
    <2> HIDE DEF a, b, m
    <2>4. Rest(pattern, s, a, b)
        BY <2>1, <2>2, <2>3, RestCharacter
    <2> QED
        BY <2>4 DEF a, b
<1>3. \A k \in Nat : k \in T => k + 1 \in T
    BY <1>2
<1>4. n \in T
    <2> HIDE DEF T
    <2> QED
        BY <1>1, <1>3, Induction
<1>5. p + (n - n) = p /\ i + (n - n) = i
    OBVIOUS
<1> QED
    BY <1>4, <1>5

\* Where the loop can be.
Reached(pattern, s, star, from, n) ==
    /\ star \in 0..Len(pattern) /\ from \in 0..Len(s) /\ n \in 0..Len(s)
    /\ star + n <= Len(pattern) /\ from + n <= Len(s)
    /\ star = 0 => from = 0
    /\ Taken(pattern, s, star, from, n)

\* What is left to find out there: the last star may take any text that ends after from.
Left(pattern, s, star, from) ==
    \E j \in 0..Len(s) : (IF star = 0 THEN j = 0 ELSE j >= from) /\ Rest(pattern, s, star, j)

NoStar(s) == \A i \in 1..Len(s) : s[i] # "*"

LEMMA LeftFromRest ==
    ASSUME NEW pattern, NEW s, Texts(pattern, s), NEW star, NEW from, NEW n,
           Reached(pattern, s, star, from, n), Rest(pattern, s, star + n, from + n)
    PROVE  Left(pattern, s, star, from)
<1>1. /\ star \in Nat /\ from \in Nat /\ n \in Nat /\ from \in 0..Len(s)
      /\ star + n <= Len(pattern) /\ from + n <= Len(s)
      /\ (star = 0 => from = 0) /\ Taken(pattern, s, star, from, n)
    BY DEF Reached, Texts
<1>2. Rest(pattern, s, star, from)
    BY <1>1, RestTaken
<1> QED
    BY <1>1, <1>2 DEF Left

LEMMA RestFromLeft ==
    ASSUME NEW pattern, NEW s, Texts(pattern, s), NEW star, NEW from, NEW n,
           Reached(pattern, s, star, from, n), Left(pattern, s, star, from)
    PROVE  \E j \in from..Len(s) : /\ star = 0 => j = from
                                  /\ j + n <= Len(s) /\ Rest(pattern, s, star, j)
                                  /\ Rest(pattern, s, star + n, j + n)
<1>1. /\ star \in Nat /\ from \in Nat /\ n \in Nat /\ Len(s) \in Nat
      /\ star + n <= Len(pattern) /\ (star = 0 => from = 0)
    BY DEF Reached, Texts
<1>0. \A m \in 1..n : pattern[star + m] # "*"
    BY Zenon DEF Reached, Taken
<1>2. PICK j \in 0..Len(s) : (IF star = 0 THEN j = 0 ELSE j >= from) /\ Rest(pattern, s, star, j)
    BY DEF Left
<1>3. j \in Nat /\ j <= Len(s) /\ j \in from..Len(s) /\ (star = 0 => j = from)
    BY <1>1, <1>2
<1>4. j + n <= Len(s) /\ Rest(pattern, s, star + n, j + n)
    BY <1>0, <1>1, <1>2, <1>3, RestSkips
<1> QED
    BY <1>2, <1>3, <1>4

\* A turn keeps what is left to find out.
LEMMA TurnKeeps ==
    ASSUME NEW pattern, NEW s, Texts(pattern, s), NoStar(s), NEW run,
           NEW star, NEW from, NEW n, Reached(pattern, s, star, from, n),
           \A a, b, c : /\ Reached(pattern, s, a, b, c)
                        /\ Weight(Len(pattern), Len(s), At(a, b, c))
                              < Weight(Len(pattern), Len(s), At(star, from, n))
                        => (run[At(a, b, c)] <=> Left(pattern, s, a, b))
    PROVE  Turn(pattern, s, run, At(star, from, n)) <=> Left(pattern, s, star, from)
<1> DEFINE P == Len(pattern)
           S == Len(s)
           p == star + n
           i == from + n
           C1 == p < P /\ pattern[p + 1] \in {s[i + 1], "?"}
           C2 == p < P /\ pattern[p + 1] = "*"
<1>1. /\ P \in Nat /\ S \in Nat /\ star \in 0..P /\ from \in 0..S /\ n \in 0..S
      /\ p \in 0..P /\ i \in 0..S /\ (star = 0 => from = 0) /\ Taken(pattern, s, star, from, n)
    BY DEF Reached, Texts
<1>2. Turn(pattern, s, run, At(star, from, n)) =
         IF i >= S THEN \A q \in p + 1 .. P : pattern[q] = "*"
         ELSE IF C1 THEN run[At(star, from, n + 1)]
         ELSE IF C2 THEN run[At(p + 1, i, 0)]
         ELSE star > 0 /\ run[At(star, from + 1, 0)]
    <2>1. At(star, from, n).star = star /\ At(star, from, n).from = from /\ At(star, from, n).n = n
        BY DEF At
    <2> QED
        BY <2>1, Zenon DEF Turn
<1>3. CASE i >= S
    <2>1. i = S
        BY <1>1, <1>3
    <2>2. Turn(pattern, s, run, At(star, from, n)) <=> Rest(pattern, s, p, i)
        <3>1. Rest(pattern, s, p, S) <=> \A q \in p + 1 .. P : pattern[q] = "*"
            BY <1>1, RestOfNothing
        <3> QED
            BY <1>2, <1>3, <2>1, <3>1, Zenon
    <2>3. ASSUME Left(pattern, s, star, from) PROVE Rest(pattern, s, p, i)
        <3>1. PICK j \in from..S : j + n <= S /\ Rest(pattern, s, p, j + n)
            BY <2>3, RestFromLeft
        <3>2. j + n = i
            BY <1>1, <2>1, <3>1
        <3> QED
            BY <3>1, <3>2
    <2> QED
        BY <2>2, <2>3, LeftFromRest
<1>4. CASE ~(i >= S) /\ C1
    <2>1. i < S /\ n + 1 \in 0..S /\ star + (n + 1) <= P /\ from + (n + 1) <= S
        BY <1>1, <1>4
    <2>2. Taken(pattern, s, star, from, n + 1)
        <3> SUFFICES ASSUME NEW m \in 1..n + 1
                     PROVE  pattern[star + m] # "*" /\ pattern[star + m] \in {s[from + m], "?"}
            BY DEF Taken
        <3>1. CASE m \in 1..n
            BY <1>1, <3>1 DEF Taken
        <3>2. CASE m = n + 1
            <4>1. star + m = p + 1 /\ from + m = i + 1 /\ i + 1 \in 1..S
                BY <1>1, <2>1, <3>2
            <4>2. s[i + 1] # "*"
                BY <4>1 DEF NoStar
            <4> QED
                BY <1>4, <4>1, <4>2
        <3> QED
            BY <1>1, <3>1, <3>2
    <2>3. Reached(pattern, s, star, from, n + 1)
        BY <1>1, <2>1, <2>2 DEF Reached
    <2>4. Weight(P, S, At(star, from, n + 1)) < Weight(P, S, At(star, from, n))
        BY <1>1, <2>1, WeightFalls
    <2>5. run[At(star, from, n + 1)] <=> Left(pattern, s, star, from)
        BY <2>3, <2>4
    <2> QED
        BY <1>2, <1>4, <2>5, Zenon
<1>5. CASE ~(i >= S) /\ ~C1 /\ C2
    <2>1. i < S /\ p + 1 \in 0..P /\ p \in 0..P - 1 /\ p < P /\ pattern[p + 1] = "*"
        BY <1>1, <1>5
    <2>2. Reached(pattern, s, p + 1, i, 0)
        BY <1>1, <2>1 DEF Reached, Taken
    <2>3. Weight(P, S, At(p + 1, i, 0)) < Weight(P, S, At(star, from, n))
        BY <1>1, <2>1, WeightFalls
    <2>4. run[At(p + 1, i, 0)] <=> Left(pattern, s, p + 1, i)
        BY <2>2, <2>3
    <2>5. Left(pattern, s, p + 1, i) <=> Rest(pattern, s, p, i)
        <3>1. Left(pattern, s, p + 1, i) <=> \E j \in i..S : Rest(pattern, s, p + 1, j)
            BY <1>1 DEF Left
        <3>2. Rest(pattern, s, p, i) <=> \E j \in i..S : Rest(pattern, s, p + 1, j)
            BY <1>1, <2>1, RestStar
        <3> QED
            BY <3>1, <3>2
    <2>6. ASSUME Left(pattern, s, star, from) PROVE Rest(pattern, s, p, i)
        <3>1. PICK j \in from..S : j + n <= S /\ Rest(pattern, s, p, j + n)
            BY <2>6, RestFromLeft
        <3>2. j + n \in 0..S /\ j + n >= i
            BY <1>1, <3>1
        <3>3. PICK k \in j + n .. S : Rest(pattern, s, p + 1, k)
            BY <2>1, <3>1, <3>2, RestStar
        <3>4. k \in i..S
            BY <1>1, <3>2, <3>3
        <3> QED
            BY <1>1, <2>1, <3>3, <3>4, RestStar
    <2>7. Left(pattern, s, star, from) <=> Rest(pattern, s, p, i)
        BY <2>6, LeftFromRest
    <2> QED
        BY <1>2, <1>5, <2>4, <2>5, <2>7, Zenon
<1>6. CASE ~(i >= S) /\ ~C1 /\ ~C2
    <2>1. i < S
        BY <1>1, <1>6
    <2>2. ~Rest(pattern, s, p, i)
        <3>1. CASE p = P
            BY <1>1, <2>1, <3>1, RestEnd
        <3>2. CASE p # P
            <4>1. p \in 0..P - 1 /\ p < P
                BY <1>1, <3>2
            <4> QED
                BY <1>1, <1>6, <4>1, RestCharacter
        <3> QED
            BY <3>1, <3>2
    <2>3. CASE star = 0
        <3>1. ~Left(pattern, s, star, from)
            BY <2>2, <2>3, RestFromLeft
        <3>2. ~(star > 0)
            BY <2>3
        <3> QED
            BY <1>2, <1>6, <3>1, <3>2, Zenon
    <2>4. CASE star # 0
        <3>1. star > 0 /\ from + 1 \in 0..S
            BY <1>1, <2>1, <2>4
        <3>2. Reached(pattern, s, star, from + 1, 0)
            BY <1>1, <2>4, <3>1 DEF Reached, Taken
        <3>3. Weight(P, S, At(star, from + 1, 0)) < Weight(P, S, At(star, from, n))
            BY <1>1, <2>1, WeightFalls
        <3>4. run[At(star, from + 1, 0)] <=> Left(pattern, s, star, from + 1)
            BY <3>2, <3>3
        <3>5. ASSUME Left(pattern, s, star, from) PROVE Left(pattern, s, star, from + 1)
            <4>1. PICK j \in from..S : Rest(pattern, s, star, j) /\ Rest(pattern, s, p, j + n)
                BY <3>5, RestFromLeft
            <4>2. j # from
                BY <2>2, <4>1
            <4>3. j \in 0..S /\ j >= from + 1
                BY <1>1, <4>2
            <4> QED
                BY <2>4, <4>1, <4>3 DEF Left
        <3>6. ASSUME Left(pattern, s, star, from + 1) PROVE Left(pattern, s, star, from)
            <4>1. PICK j \in 0..S : j >= from + 1 /\ Rest(pattern, s, star, j)
                BY <2>4, <3>6 DEF Left
            <4>2. j >= from
                BY <1>1, <4>1
            <4> QED
                BY <2>4, <4>1, <4>2 DEF Left
        <3> QED
            BY <1>2, <1>6, <3>1, <3>4, <3>5, <3>6, Zenon
    <2> QED
        BY <2>3, <2>4
<1> HIDE DEF C1, C2
<1> QED
    BY <1>3, <1>4, <1>5, <1>6

\* Over a text without a star, the single pass of globMatch finds a way to cut the text
\* whenever there is one.
LEMMA GlobCovers ==
    ASSUME NEW pattern, NEW s, Texts(pattern, s), NoStar(s)
    PROVE  globMatch(pattern, s) <=> Covers(pattern, s)
<1> DEFINE P == Len(pattern)
           S == Len(s)
           D == States(P, S)
<1>0. P \in Nat /\ S \in Nat
    BY DEF Texts
<1>1. PICK run \in [D -> BOOLEAN] : /\ globMatch(pattern, s) = run[At(0, 0, 0)]
                                    /\ \A at \in D : run[at] = Turn(pattern, s, run, at)
    BY <1>0, RunOf
<1> DEFINE Wrong(a, b, c) == Reached(pattern, s, a, b, c) /\ ~(run[At(a, b, c)] <=> Left(pattern, s, a, b))
           T == {w \in Nat : \E a, b, c : Wrong(a, b, c) /\ w = Weight(P, S, At(a, b, c))}
<1>2. ASSUME NEW a, NEW b, NEW c, Reached(pattern, s, a, b, c)
      PROVE  At(a, b, c) \in D /\ Weight(P, S, At(a, b, c)) \in Nat
    <2>1. At(a, b, c) \in D
        BY <1>2 DEF Reached, At, States
    <2> QED
        BY <1>0, <2>1, WeightNat
<1> HIDE DEF D
<1>3. T = {}
    <2> SUFFICES ASSUME T # {} PROVE FALSE
        OBVIOUS
    <2>1. PICK w \in T : \A y \in T : w <= y
        <3>1. T \in SUBSET Nat
            OBVIOUS
        <3> HIDE DEF T
        <3> QED
            BY <3>1, Least
    <2>2. PICK star, from, n : Wrong(star, from, n) /\ w = Weight(P, S, At(star, from, n))
        BY <2>1
    <2>3. ASSUME NEW a, NEW b, NEW c, Reached(pattern, s, a, b, c),
                 Weight(P, S, At(a, b, c)) < Weight(P, S, At(star, from, n))
          PROVE  run[At(a, b, c)] <=> Left(pattern, s, a, b)
        <3> DEFINE v == Weight(P, S, At(a, b, c))
        <3>1. v \in Nat /\ w \in Nat /\ v < w
            BY <1>2, <2>1, <2>2, <2>3
        <3>2. v \notin T
            BY <2>1, <3>1
        <3>3. ~Wrong(a, b, c)
            BY <3>1, <3>2
        <3> QED
            BY <2>3, <3>3
    <2>4. Turn(pattern, s, run, At(star, from, n)) <=> Left(pattern, s, star, from)
        BY <2>2, <2>3, TurnKeeps
    <2>5. run[At(star, from, n)] = Turn(pattern, s, run, At(star, from, n))
        BY <1>1, <1>2, <2>2
    <2> QED
        BY <2>2, <2>4, <2>5
<1>4. Reached(pattern, s, 0, 0, 0)
    BY <1>0 DEF Reached, Taken
<1>5. run[At(0, 0, 0)] <=> Left(pattern, s, 0, 0)
    BY <1>2, <1>3, <1>4
<1>6. Left(pattern, s, 0, 0) <=> Rest(pattern, s, 0, 0)
    BY <1>0 DEF Left
<1> QED
    BY <1>1, <1>5, <1>6, CoversIsRest

-----------------------------------------------------------------------------

\* Whatever the patterns, keys and operations, a listing has exactly the live keys that
\* its pattern covers.
THEOREM ListsWhatIsCovered == Spec => []GlobAgrees
<1>1. ASSUME NEW pattern \in Patterns, NEW k \in Keys
      PROVE  globMatch(pattern, k) <=> k \in CoveredBy[pattern]
    <2>1. Len(pattern) \in Nat /\ Len(k) \in Nat /\ k \in Seq(STRING) /\ "*" \notin Range(k)
        BY TextAssumption
    <2>2. Texts(pattern, k)
        BY <2>1 DEF Texts
    <2>3. NoStar(k)
        BY <2>1 DEF NoStar, Range
    <2>4. globMatch(pattern, k) <=> Covers(pattern, k)
        BY <2>2, <2>3, GlobCovers
    <2> QED
        BY <2>4, Zenon DEF CoveredBy
<1>2. GlobAgrees
    BY <1>1, Zenon DEF GlobAgrees
<1> QED
    BY <1>2, PTL

-----------------------------------------------------------------------------
(* A glob that ends with its only star                                     *)

\* A text that matches begins with the characters of the pattern up to its first
\* wildcard.
LEMMA GlobLiteral ==
    ASSUME NEW pattern, NEW s, Texts(pattern, s), NEW k \in Nat, k <= Len(pattern),
           \A i \in 1..k : pattern[i] \notin {"*", "?"}, globMatch(pattern, s)
    PROVE  k <= Len(s) /\ \A i \in 1..k : s[i] = pattern[i]
<1> DEFINE P == Len(pattern)
           S == Len(s)
           D == States(P, S)
<1>0. P \in Nat /\ S \in Nat
    BY DEF Texts
<1>1. PICK run \in [D -> BOOLEAN] : /\ globMatch(pattern, s) = run[At(0, 0, 0)]
                                    /\ \A at \in D : run[at] = Turn(pattern, s, run, at)
    BY <1>0, RunOf
<1> DEFINE T == {n \in Nat : n <= k => n <= S /\ run[At(0, 0, n)] /\ \A i \in 1..n : s[i] = pattern[i]}
<1>2. 0 \in T
    <2>1. run[At(0, 0, 0)]
        BY <1>1, Zenon
    <2> QED
        BY <1>0, <2>1
<1>3. ASSUME NEW n \in Nat, n \in T, n + 1 <= k
      PROVE  n + 1 <= S /\ run[At(0, 0, n + 1)] /\ \A i \in 1..n + 1 : s[i] = pattern[i]
    <2>1. n <= S /\ run[At(0, 0, n)] /\ n < P /\ n + 1 \in 1..k /\ n + 1 \in 1..P
        BY <1>0, <1>3
    <2>2. \A i \in 1..n : s[i] = pattern[i]
        BY <1>3
    <2>3. pattern[n + 1] # "*" /\ pattern[n + 1] # "?"
        BY <2>1
    <2>4. At(0, 0, n) \in D
        BY <1>0, <2>1 DEF At, States
    <2>5. Turn(pattern, s, run, At(0, 0, n))
        BY <1>1, <2>1, <2>4
    <2>6. IF n >= S THEN \A q \in n + 1 .. P : pattern[q] = "*"
          ELSE IF n < P /\ pattern[n + 1] \in {s[n + 1], "?"} THEN run[At(0, 0, n + 1)]
          ELSE IF n < P /\ pattern[n + 1] = "*" THEN run[At(n + 1, n, 0)]
          ELSE 0 > 0 /\ run[At(0, 1, 0)]
        <3>1. At(0, 0, n).star = 0 /\ At(0, 0, n).from = 0 /\ At(0, 0, n).n = n /\ 0 + n = n /\ 0 + 1 = 1
            BY DEF At
        <3> QED
            BY <2>5, <3>1 DEF Turn
    <2>7. ~(n >= S)
        <3> SUFFICES ASSUME n >= S PROVE FALSE
            OBVIOUS
        <3>1. n + 1 \in n + 1 .. P
            BY <1>0, <2>1
        <3> QED
            BY <2>3, <2>6, <3>1
    <2>8. pattern[n + 1] = s[n + 1] /\ run[At(0, 0, n + 1)]
        BY <2>3, <2>6, <2>7
    <2>9. n + 1 <= S
        BY <1>0, <2>7
    <2>10. ASSUME NEW i \in 1..n + 1 PROVE s[i] = pattern[i]
        BY <2>2, <2>8
    <2> QED
        BY <2>8, <2>9, <2>10
<1>4. \A n \in Nat : n \in T => n + 1 \in T
    BY <1>3
<1>5. k \in T
    <2> HIDE DEF T
    <2> QED
        BY <1>2, <1>4, Induction
<1> QED
    BY <1>5

\* A text that begins like a glob which then ends with a star matches, whatever else
\* the two have in common, unless a star comes first in the rest.
LEMMA GlobOwn ==
    ASSUME NEW pattern, NEW s, Texts(pattern, s), NEW k \in Nat, Len(pattern) = k + 1, k <= Len(s),
           pattern[k + 1] = "*", \A i \in 1..k : pattern[i] = s[i],
           k < Len(s) => s[k + 1] # "*"
    PROVE  globMatch(pattern, s)
<1> DEFINE P == Len(pattern)
           S == Len(s)
           D == States(P, S)
<1>0. P \in Nat /\ S \in Nat
    BY DEF Texts
<1>1. PICK run \in [D -> BOOLEAN] : /\ globMatch(pattern, s) = run[At(0, 0, 0)]
                                    /\ \A at \in D : run[at] = Turn(pattern, s, run, at)
    BY <1>0, RunOf
<1>2. ASSUME NEW star \in 0..P, NEW from \in 0..S, NEW n \in 0..S,
             NEW p, NEW i, p = star + n, i = from + n
      PROVE  run[At(star, from, n)] =
               IF i >= S THEN \A q \in p + 1 .. P : pattern[q] = "*"
               ELSE IF p < P /\ pattern[p + 1] \in {s[i + 1], "?"} THEN run[At(star, from, n + 1)]
               ELSE IF p < P /\ pattern[p + 1] = "*" THEN run[At(p + 1, i, 0)]
               ELSE star > 0 /\ run[At(star, from + 1, 0)]
    <2>1. At(star, from, n).star = star /\ At(star, from, n).from = from /\ At(star, from, n).n = n
        BY DEF At
    <2>2. At(star, from, n) \in D
        BY DEF At, States
    <2> HIDE DEF D
    <2>3. run[At(star, from, n)] = Turn(pattern, s, run, At(star, from, n))
        BY <1>1, <2>2
    <2> QED
        BY <1>2, <2>1, <2>3, Zenon DEF Turn
<1> DEFINE T == {m \in Nat : m <= S - k => run[At(P, S - m, 0)]}
<1>3. 0 \in T
    <2>1. S - 0 = S /\ S \in 0..S /\ P \in 0..P /\ 0 \in 0..S /\ S >= S
        BY <1>0
    <2>2. run[At(P, S, 0)] = IF S >= S THEN \A q \in P + 1 .. P : pattern[q] = "*"
              ELSE IF P < P /\ pattern[P + 1] \in {s[S + 1], "?"} THEN run[At(P, S, 0 + 1)]
              ELSE IF P < P /\ pattern[P + 1] = "*" THEN run[At(P + 1, S, 0)]
              ELSE P > 0 /\ run[At(P, S + 1, 0)]
        <3> DEFINE z == 0
        <3>1. P \in 0..P /\ S \in 0..S /\ z \in 0..S /\ P = P + z /\ S = S + z
            BY <1>0
        <3> HIDE DEF z
        <3> SUFFICES run[At(P, S, z)] = IF S >= S THEN \A q \in P + 1 .. P : pattern[q] = "*"
              ELSE IF P < P /\ pattern[P + 1] \in {s[S + 1], "?"} THEN run[At(P, S, z + 1)]
              ELSE IF P < P /\ pattern[P + 1] = "*" THEN run[At(P + 1, S, 0)]
              ELSE P > 0 /\ run[At(P, S + 1, 0)]
            BY Zenon DEF z
        <3> HIDE DEF P, S
        <3> QED
            BY <1>2, <3>1
    <2>3. \A q \in P + 1 .. P : pattern[q] = "*"
        BY <1>0
    <2> QED
        BY <2>1, <2>2, <2>3
<1>4. ASSUME NEW m \in Nat, m \in T, m + 1 <= S - k
      PROVE  run[At(P, S - (m + 1), 0)]
    <2> DEFINE from == S - (m + 1)
    <2>1. /\ from \in 0..S /\ P \in 0..P /\ 0 \in 0..S /\ ~(from + 0 >= S) /\ ~(P + 0 < P) /\ P > 0
          /\ from + 1 = S - m
        BY <1>0, <1>4
    <2>2. run[At(P, from + 1, 0)]
        BY <1>0, <1>4, <2>1
    <2> HIDE DEF from
    <2>3. run[At(P, from, 0)]
        BY <1>2, <2>1, <2>2
    <2> QED
        BY <2>3 DEF from
<1>5. \A m \in Nat : m \in T => m + 1 \in T
    BY <1>4
<1>6. run[At(P, k, 0)]
    <2>1. S - k \in Nat /\ S - (S - k) = k
        BY <1>0
    <2>2. S - k \in T
        <3> HIDE DEF T
        <3> QED
            BY <1>3, <1>5, <2>1, Induction
    <2> QED
        BY <2>1, <2>2
<1>7. run[At(0, 0, k)]
    <2>1. k \in 0..S /\ 0 \in 0..S /\ 0 \in 0..P /\ 0 + k = k /\ k < P
        BY <1>0
    <2>0. run[At(0, 0, k)] = IF k >= S THEN \A q \in k + 1 .. P : pattern[q] = "*"
              ELSE IF k < P /\ pattern[k + 1] \in {s[k + 1], "?"} THEN run[At(0, 0, k + 1)]
              ELSE IF k < P /\ pattern[k + 1] = "*" THEN run[At(k + 1, k, 0)]
              ELSE 0 > 0 /\ run[At(0, 0 + 1, 0)]
        BY <1>2, <2>1, Zenon
    <2>2. CASE k >= S
        <3>1. \A q \in k + 1 .. P : pattern[q] = "*"
            OBVIOUS
        <3> QED
            BY <2>0, <2>2, <3>1
    <2>3. CASE ~(k >= S)
        <3>1. k < Len(s)
            BY <1>0, <2>3
        <3>2. pattern[k + 1] = "*" /\ s[k + 1] # "*" /\ "*" # "?" /\ k + 1 = P
            BY <3>1
        <3>3. ~(pattern[k + 1] \in {s[k + 1], "?"})
            BY <3>2
        <3> QED
            BY <1>6, <2>0, <2>1, <2>3, <3>2, <3>3
    <2> QED
        BY <2>2, <2>3
<1> DEFINE U == {m \in Nat : m <= k => run[At(0, 0, k - m)]}
<1>8. 0 \in U
    <2>1. k - 0 = k
        OBVIOUS
    <2> QED
        BY <1>7, <2>1
<1>9. ASSUME NEW m \in Nat, m \in U, m + 1 <= k
      PROVE  run[At(0, 0, k - (m + 1))]
    <2> DEFINE n == k - (m + 1)
    <2>1. n \in 0..S /\ 0 \in 0..S /\ 0 \in 0..P /\ 0 + n = n /\ n < P /\ ~(n >= S) /\ n + 1 = k - m /\ n + 1 \in 1..k
        BY <1>0, <1>9
    <2>2. run[At(0, 0, n + 1)]
        BY <1>9, <2>1
    <2>3. pattern[n + 1] \in {s[n + 1], "?"}
        BY <2>1
    <2> HIDE DEF n
    <2>4. run[At(0, 0, n)]
        <3>1. run[At(0, 0, n)] = IF n >= S THEN \A q \in n + 1 .. P : pattern[q] = "*"
              ELSE IF n < P /\ pattern[n + 1] \in {s[n + 1], "?"} THEN run[At(0, 0, n + 1)]
              ELSE IF n < P /\ pattern[n + 1] = "*" THEN run[At(n + 1, n, 0)]
              ELSE 0 > 0 /\ run[At(0, 0 + 1, 0)]
            <4>1. n \in 0..S /\ 0 \in 0..S /\ 0 \in 0..P /\ 0 + n = n
                BY <2>1
            <4> QED
                BY <1>2, <4>1, Zenon
        <3> QED
            BY <2>1, <2>2, <2>3, <3>1
    <2> QED
        BY <2>4 DEF n
<1>10. \A m \in Nat : m \in U => m + 1 \in U
    BY <1>9
<1>11. k \in U
    <2> HIDE DEF U
    <2> QED
        BY <1>8, <1>10, Induction
<1>12. k - k = 0
    OBVIOUS
<1> QED
    BY <1>1, <1>11, <1>12

-----------------------------------------------------------------------------
(* Keys of the store, and what a listing has of them                       *)

\* Characters; the ones the code itself writes are named for the provers.
KeyChar == STRING \cup {".", "*", "#", "%", "2", "3", "5", "A", "E", ":", "g", "m", "h", "p", "c"}

\* s begins with a.
Starts(a, s) == Len(a) <= Len(s) /\ \A i \in 1..Len(a) : s[i] = a[i]

Colonless(a) == \A i \in 1..Len(a) : a[i] # ":"

LEMMA JoinedParts ==
    ASSUME NEW a \in Seq(KeyChar), NEW b \in Seq(KeyChar)
    PROVE  /\ Joined(a, b) \in Seq(KeyChar) /\ Len(Joined(a, b)) = Len(a) + 1 + Len(b)
           /\ Len(a) \in Nat /\ Len(b) \in Nat
           /\ \A i \in 1..Len(a) : Joined(a, b)[i] = a[i]
           /\ Joined(a, b)[Len(a) + 1] = ":"
           /\ \A i \in 1..Len(b) : Joined(a, b)[Len(a) + 1 + i] = b[i]
<1> DEFINE p == a \o <<":">>
           n == Len(a)
<1>1. /\ p \in Seq(KeyChar) /\ Len(p) = n + 1 /\ p[n + 1] = ":" /\ n \in Nat
      /\ \A i \in 1..n : p[i] = a[i]
    BY DEF KeyChar
<1> HIDE DEF p
<1>2. /\ p \o b \in Seq(KeyChar) /\ Len(p \o b) = Len(p) + Len(b)
      /\ \A i \in 1..Len(p) + Len(b) : (p \o b)[i] = IF i <= Len(p) THEN p[i] ELSE b[i - Len(p)]
    BY <1>1, ConcatProperties
<1>3. Joined(a, b) = p \o b
    BY DEF Joined, p
<1>4. Len(b) \in Nat
    OBVIOUS
<1> HIDE DEF n
<1>5. \A i \in 1..n : (p \o b)[i] = a[i]
    BY <1>1, <1>2, <1>4
<1>6. (p \o b)[n + 1] = ":"
    BY <1>1, <1>2, <1>4
<1>7. \A i \in 1..Len(b) : (p \o b)[n + 1 + i] = b[i]
    BY <1>1, <1>2, <1>4
<1> QED
    BY <1>1, <1>2, <1>3, <1>4, <1>5, <1>6, <1>7 DEF n

LEMMA JoinedTwice ==
    ASSUME NEW a \in Seq(KeyChar), NEW b \in Seq(KeyChar), NEW c \in Seq(KeyChar)
    PROVE  Joined(Joined(a, b), c) = Joined(a, Joined(b, c))
<1> DEFINE colon == <<":">>
<1>1. colon \in Seq(KeyChar)
    BY DEF KeyChar
<1> HIDE DEF colon
<1> DEFINE bc == b \o colon
           x == bc \o c
           ac == a \o colon
<1>2. bc \in Seq(KeyChar) /\ ac \in Seq(KeyChar) /\ x \in Seq(KeyChar)
    BY <1>1, ConcatProperties
<1>3. Joined(Joined(a, b), c) = ((ac \o b) \o colon) \o c /\ Joined(a, Joined(b, c)) = ac \o x
    BY Zenon DEF Joined, colon
<1>4. (ac \o b) \o colon = ac \o bc
    BY <1>1, <1>2, ConcatAssociative
<1>5. (ac \o bc) \o c = ac \o x
    <2> HIDE DEF ac, bc
    <2> QED
        BY <1>2, ConcatAssociative
<1> QED
    BY <1>3, <1>4, <1>5

\* The id is what follows the last separator.
LEMMA IdAfterLast ==
    ASSUME NEW a \in Seq(KeyChar), NEW id \in Seq(KeyChar), Colonless(id)
    PROVE  msgIDFromCacheKey(Joined(a, id)) = id
<1> DEFINE key == Joined(a, id)
           n == Len(a)
           I == {i \in 1..Len(key) : key[i] = ":"}
           last == LastAt(key, ":")
<1>1. /\ key \in Seq(KeyChar) /\ Len(key) = n + 1 + Len(id) /\ n \in Nat /\ Len(id) \in Nat
      /\ key[n + 1] = ":"
      /\ \A i \in 1..Len(id) : key[n + 1 + i] = id[i]
    BY JoinedParts
<1> HIDE DEF key
<1>2. n + 1 \in I /\ \A i \in I : i \in Nat /\ i <= n + 1
    <2>1. ASSUME NEW i \in I, ~(i <= n + 1) PROVE FALSE
        <3>1. i - (n + 1) \in 1..Len(id) /\ n + 1 + (i - (n + 1)) = i
            BY <1>1, <2>1
        <3>2. key[i] = id[i - (n + 1)]
            BY <1>1, <3>1
        <3> QED
            BY <3>1, <3>2 DEF Colonless
    <2> QED
        BY <1>1, <2>1
<1>3. last = IF I # {} THEN Max(I) ELSE 0
    BY DEF LastAt
<1>4. msgIDFromCacheKey(key) = SubSeq(key, last + 1, Len(key))
    BY DEF msgIDFromCacheKey
<1> HIDE DEF I, last, n
<1>5. last = n + 1
    <2>1. \A x \in I : (\A y \in I : x >= y) => x = n + 1
        BY <1>1, <1>2
    <2>2. \A y \in I : n + 1 >= y
        BY <1>1, <1>2
    <2> QED
        BY <1>2, <1>3, <2>1, <2>2 DEF Max
<1>6. SubSeq(key, n + 2, Len(key)) = id
    <2> DEFINE r == SubSeq(key, n + 2, Len(key))
    <2>1. \A i \in n + 2 .. Len(key) : key[i] \in KeyChar
        BY <1>1
    <2>2. /\ r \in Seq(KeyChar) /\ Len(r) = Len(id)
          /\ \A i \in 1..Len(id) : r[i] = key[n + 1 + i]
        BY <1>1, <2>1, SubSeqProperties
    <2> HIDE DEF r
    <2>3. r = id
        BY <1>1, <2>2, SeqEqual
    <2> QED
        BY <2>3 DEF r
<1>7. last + 1 = n + 2
    BY <1>1, <1>5
<1> QED
    BY <1>4, <1>6, <1>7 DEF key

\* A prefix, and what tells it from the others.
HasPrefix(prefix, kind) ==
    /\ prefix \in Seq(KeyChar) /\ Len(prefix) = 3
    /\ prefix[1] = "g" /\ prefix[2] = ":" /\ prefix[3] = kind

LEMMA KeyPrefixes ==
    /\ HasPrefix(cachedMessagePrefix, "m") /\ HasPrefix(publishLeasePrefix, "p")
    /\ HasPrefix(handlerInfoCachePrefix, "h")
<1>1. ASSUME NEW a \in KeyChar, NEW b \in KeyChar, NEW c \in KeyChar, a = "g", b = ":"
      PROVE  HasPrefix(<<a, b, c>>, c)
    BY <1>1 DEF HasPrefix
<1>2. "g" \in KeyChar /\ ":" \in KeyChar /\ "m" \in KeyChar /\ "p" \in KeyChar /\ "h" \in KeyChar
    BY DEF KeyChar
<1>3. HasPrefix(cachedMessagePrefix, "m")
    BY <1>1, <1>2, Zenon DEF cachedMessagePrefix
<1>4. HasPrefix(publishLeasePrefix, "p")
    BY <1>1, <1>2, Zenon DEF publishLeasePrefix
<1>5. HasPrefix(handlerInfoCachePrefix, "h")
    BY <1>1, <1>2, Zenon DEF handlerInfoCachePrefix
<1> QED
    BY <1>3, <1>4, <1>5

LEMMA StartsAfter ==
    ASSUME NEW a \in Seq(KeyChar), NEW x \in Seq(KeyChar), NEW y \in Seq(KeyChar),
           Starts(Joined(a, x), Joined(a, y))
    PROVE  Starts(x, y)
<1> DEFINE u == Joined(a, x)
           w == Joined(a, y)
           n == Len(a) + 1
<1>1. /\ Len(u) = n + Len(x) /\ Len(w) = n + Len(y) /\ n \in Nat /\ Len(x) \in Nat /\ Len(y) \in Nat
      /\ \A i \in 1..Len(x) : u[n + i] = x[i]
      /\ \A i \in 1..Len(y) : w[n + i] = y[i]
    <2>1. /\ Len(u) = n + Len(x) /\ n \in Nat /\ Len(x) \in Nat
          /\ \A i \in 1..Len(x) : u[n + i] = x[i]
        <3>1. /\ Len(u) = Len(a) + 1 + Len(x) /\ Len(a) \in Nat /\ Len(x) \in Nat
              /\ \A i \in 1..Len(x) : u[Len(a) + 1 + i] = x[i]
            BY JoinedParts, Zenon
        <3> HIDE DEF u
        <3> QED
            BY <3>1
    <2>2. /\ Len(w) = n + Len(y) /\ Len(y) \in Nat
          /\ \A i \in 1..Len(y) : w[n + i] = y[i]
        BY JoinedParts
    <2> QED
        BY <2>1, <2>2
<1> HIDE DEF u, w, n
<1>2. Len(u) <= Len(w) /\ \A i \in 1..Len(u) : w[i] = u[i]
    BY DEF Starts, u, w
<1>3. Len(x) <= Len(y)
    BY <1>1, <1>2
<1>4. ASSUME NEW i \in 1..Len(x) PROVE y[i] = x[i]
    <2>1. n + i \in 1..Len(u) /\ i \in 1..Len(y)
        BY <1>1, <1>3
    <2> QED
        BY <1>1, <1>2, <2>1
<1> QED
    BY <1>3, <1>4 DEF Starts

\* Names without a separator are told apart by what is joined to them.
LEMMA JoinedStarts ==
    ASSUME NEW a \in Seq(KeyChar), NEW b \in Seq(KeyChar), NEW x \in Seq(KeyChar), NEW y \in Seq(KeyChar),
           Colonless(a), Colonless(b), Starts(Joined(a, x), Joined(b, y))
    PROVE  a = b /\ Starts(x, y)
<1> DEFINE u == Joined(a, x)
           w == Joined(b, y)
           m == Len(a)
           n == Len(b)
<1>1. /\ Len(u) = m + 1 + Len(x) /\ m \in Nat /\ Len(x) \in Nat /\ u[m + 1] = ":"
      /\ \A i \in 1..m : u[i] = a[i]
    BY JoinedParts
<1>2. /\ Len(w) = n + 1 + Len(y) /\ n \in Nat /\ Len(y) \in Nat /\ w[n + 1] = ":"
      /\ \A i \in 1..n : w[i] = b[i]
    BY JoinedParts
<1>3. Len(u) <= Len(w) /\ \A i \in 1..Len(u) : w[i] = u[i]
    BY DEF Starts
<1>4. (\A i \in 1..m : a[i] # ":") /\ (\A i \in 1..n : b[i] # ":")
    BY DEF Colonless
<1> HIDE DEF u, w, m, n
<1>5. m = n
    <2>1. ASSUME m < n PROVE FALSE
        <3>1. m + 1 \in 1..Len(u) /\ m + 1 \in 1..n
            BY <1>1, <1>2, <2>1
        <3> QED
            BY <1>1, <1>2, <1>3, <1>4, <3>1
    <2>2. ASSUME n < m PROVE FALSE
        <3>1. n + 1 \in 1..Len(u) /\ n + 1 \in 1..m
            BY <1>1, <1>2, <2>2
        <3> QED
            BY <1>1, <1>2, <1>3, <1>4, <3>1
    <2> QED
        BY <1>1, <1>2, <2>1, <2>2
<1>6. ASSUME NEW i \in 1..m PROVE a[i] = b[i]
    <2>1. i \in 1..Len(u) /\ i \in 1..n
        BY <1>1, <1>5
    <2> QED
        BY <1>1, <1>2, <1>3, <2>1
<1>7. a = b
    BY <1>5, <1>6, SeqEqual DEF m, n
<1>8. Starts(x, y)
    BY <1>7, StartsAfter
<1> QED
    BY <1>7, <1>8

\* All keys and globs are of this form, up to what comes last.
Base(prefix, scope) == Joined(prefix, Joined(scope, <<>>))

LEMMA BaseParts ==
    ASSUME NEW prefix \in Seq(KeyChar), NEW kind, HasPrefix(prefix, kind), NEW scope \in Seq(KeyChar)
    PROVE  /\ Base(prefix, scope) \in Seq(KeyChar) /\ Len(Base(prefix, scope)) = Len(scope) + 5
           /\ Len(scope) \in Nat
           /\ Base(prefix, scope)[1] = "g" /\ Base(prefix, scope)[2] = ":"
           /\ Base(prefix, scope)[3] = kind /\ Base(prefix, scope)[4] = ":"
           /\ \A i \in 1..Len(scope) : Base(prefix, scope)[4 + i] = scope[i]
           /\ Base(prefix, scope)[Len(scope) + 5] = ":"
<1> DEFINE e == <<>>
           x == Joined(scope, e)
           b == Joined(prefix, x)
           n == Len(scope)
<1>1. e \in Seq(KeyChar) /\ Len(e) = 0
    OBVIOUS
<1> HIDE DEF e
<1>2. /\ x \in Seq(KeyChar) /\ Len(x) = n + 1 /\ n \in Nat /\ x[n + 1] = ":"
      /\ \A i \in 1..n : x[i] = scope[i]
    <2>1. /\ x \in Seq(KeyChar) /\ Len(x) = n + 1 + Len(e) /\ n \in Nat /\ x[n + 1] = ":"
          /\ \A i \in 1..n : x[i] = scope[i]
        BY <1>1, JoinedParts
    <2> QED
        BY <1>1, <2>1
<1> HIDE DEF x
<1>3. Len(prefix) = 3 /\ prefix[1] = "g" /\ prefix[2] = ":" /\ prefix[3] = kind
    BY DEF HasPrefix
<1>4. /\ b \in Seq(KeyChar) /\ Len(b) = Len(prefix) + 1 + Len(x)
      /\ \A i \in 1..Len(prefix) : b[i] = prefix[i]
      /\ b[Len(prefix) + 1] = ":"
      /\ \A i \in 1..Len(x) : b[Len(prefix) + 1 + i] = x[i]
    BY <1>2, JoinedParts
<1> HIDE DEF b, n
<1>5. Len(prefix) + 1 = 4
    BY <1>3
<1>6. /\ Len(b) = n + 5 /\ b[1] = "g" /\ b[2] = ":" /\ b[3] = kind /\ b[4] = ":"
    BY <1>2, <1>3, <1>4
<1>7. \A i \in 1..Len(x) : b[4 + i] = x[i]
    BY <1>4, <1>5
<1>8. /\ \A i \in 1..n : b[4 + i] = scope[i]
      /\ b[n + 5] = ":"
    <2>1. \A i \in 1..n : i \in 1..Len(x)
        BY <1>2
    <2>2. n + 1 \in 1..Len(x) /\ 4 + (n + 1) = n + 5
        BY <1>2
    <2> QED
        BY <1>2, <1>7, <2>1, <2>2
<1> QED
    BY <1>2, <1>4, <1>6, <1>8 DEF b, n, x, e, Base

LEMMA BaseThen ==
    ASSUME NEW prefix \in Seq(KeyChar), NEW scope \in Seq(KeyChar), NEW x \in Seq(KeyChar)
    PROVE  Joined(prefix, Joined(scope, x)) = Base(prefix, scope) \o x
<1> DEFINE colon == <<":">>
           e == <<>>
           p == prefix \o colon
           q == scope \o colon
<1>1. colon \in Seq(KeyChar) /\ e \in Seq(KeyChar)
    BY DEF KeyChar
<1> HIDE DEF colon, e
<1>2. p \in Seq(KeyChar) /\ q \in Seq(KeyChar)
    BY <1>1, ConcatProperties
<1>3. Joined(prefix, Joined(scope, x)) = p \o (q \o x) /\ Base(prefix, scope) = p \o (q \o e)
    BY Zenon DEF Joined, Base, colon, e
<1> HIDE DEF p, q
<1>4. q \o e = q
    BY <1>2, ConcatEmptySeq DEF e
<1>5. (p \o q) \o x = p \o (q \o x)
    BY <1>2, ConcatAssociative
<1> QED
    BY <1>3, <1>4, <1>5

\* What a glob lists begins with its characters before the star, if none of those is a
\* wildcard.
LEMMA ListedStarts ==
    ASSUME NEW base \in Seq(KeyChar), NEW key \in Seq(KeyChar),
           NEW k \in 0..Len(base), \A i \in 1..k : base[i] \notin {"*", "?"},
           globMatch(base \o <<"*">>, key)
    PROVE  k <= Len(key) /\ \A i \in 1..k : key[i] = base[i]
<1> DEFINE glob == base \o <<"*">>
<1>1. Len(glob) = Len(base) + 1 /\ Len(base) \in Nat /\ \A i \in 1..Len(base) : glob[i] = base[i]
    BY DEF KeyChar
<1>0. globMatch(glob, key)
    OBVIOUS
<1> HIDE DEF glob
<1>2. Texts(glob, key) /\ k \in Nat /\ k <= Len(glob)
    BY <1>1 DEF Texts
<1>3. \A i \in 1..k : glob[i] = base[i]
    BY <1>1
<1>4. k <= Len(key) /\ \A i \in 1..k : key[i] = glob[i]
    BY <1>0, <1>2, <1>3, GlobLiteral
<1> QED
    BY <1>3, <1>4

LEMMA OwnIsListed ==
    ASSUME NEW base \in Seq(KeyChar), NEW x \in Seq(KeyChar), Len(x) > 0 => x[1] # "*"
    PROVE  globMatch(base \o <<"*">>, base \o x)
<1> DEFINE glob == base \o <<"*">>
           key == base \o x
           k == Len(base)
<1>1. k \in Nat /\ Len(glob) = k + 1 /\ glob[k + 1] = "*" /\ \A i \in 1..k : glob[i] = base[i]
    BY DEF KeyChar
<1>2. /\ Len(key) = k + Len(x) /\ Len(x) \in Nat
      /\ \A i \in 1..k + Len(x) : key[i] = IF i <= k THEN base[i] ELSE x[i - k]
    BY ConcatProperties
<1> HIDE DEF glob, key, k
<1>3. Texts(glob, key) /\ k <= Len(key)
    BY <1>1, <1>2 DEF Texts
<1>4. \A i \in 1..k : glob[i] = key[i]
    BY <1>1, <1>2
<1>5. k < Len(key) => key[k + 1] # "*"
    <2> SUFFICES ASSUME k < Len(key) PROVE key[k + 1] # "*"
        OBVIOUS
    <2>1. Len(x) > 0 /\ k + 1 \in 1..k + Len(x) /\ (k + 1) - k = 1 /\ ~(k + 1 <= k)
        BY <1>1, <1>2
    <2>2. key[k + 1] = x[1]
        BY <1>2, <2>1
    <2> QED
        BY <2>1, <2>2
<1>6. globMatch(glob, key)
    BY <1>1, <1>3, <1>4, <1>5, GlobOwn
<1> QED
    BY <1>6 DEF glob, key

\* A glob of messages lists no lease and no handler info, and so on, whatever the names.
LEMMA KindsApart ==
    ASSUME NEW p \in Seq(KeyChar), NEW q \in Seq(KeyChar), NEW pk, NEW qk,
           HasPrefix(p, pk), HasPrefix(q, qk), pk # qk, pk \notin {"*", "?"},
           NEW scope \in Seq(KeyChar), NEW other \in Seq(KeyChar), NEW x \in Seq(KeyChar)
    PROVE  ~globMatch(Base(p, scope) \o <<"*">>, Base(q, other) \o x)
<1> DEFINE b == Base(p, scope)
           d == Base(q, other)
           key == d \o x
<1> SUFFICES ASSUME globMatch(b \o <<"*">>, key) PROVE FALSE
    OBVIOUS
<1>1. b \in Seq(KeyChar) /\ Len(b) \in Nat /\ Len(b) >= 3 /\ b[1] = "g" /\ b[2] = ":" /\ b[3] = pk
    <2>1. /\ b \in Seq(KeyChar) /\ Len(b) = Len(scope) + 5 /\ Len(scope) \in Nat
          /\ b[1] = "g" /\ b[2] = ":" /\ b[3] = pk
        BY BaseParts
    <2> QED
        BY <2>1
<1>2. d \in Seq(KeyChar) /\ Len(d) \in Nat /\ Len(d) >= 3 /\ d[3] = qk
    <2>1. d \in Seq(KeyChar) /\ Len(d) = Len(other) + 5 /\ Len(other) \in Nat /\ d[3] = qk
        BY BaseParts
    <2> QED
        BY <2>1
<1> HIDE DEF b, d
<1>3. /\ key \in Seq(KeyChar) /\ Len(x) \in Nat
      /\ \A i \in 1..Len(d) + Len(x) : key[i] = IF i <= Len(d) THEN d[i] ELSE x[i - Len(d)]
    BY <1>2, ConcatProperties
<1> HIDE DEF key
<1>4. key[3] = qk
    BY <1>2, <1>3
<1> DEFINE k == 3
<1>5. k \in 0..Len(b) /\ \A i \in 1..k : b[i] \notin {"*", "?"}
    <2>1. \A i \in 1..k : i = 1 \/ i = 2 \/ i = 3
        OBVIOUS
    <2> QED
        BY <1>1, <2>1
<1>6. k \in 1..k
    OBVIOUS
<1> HIDE DEF k
<1>7. \A i \in 1..k : key[i] = b[i]
    BY <1>1, <1>3, <1>5, ListedStarts
<1> QED
    BY <1>1, <1>4, <1>6, <1>7 DEF k

\* Scopes of different roles, whatever the names.
LEMMA RolesApart ==
    ASSUME NEW p \in Seq(KeyChar), NEW pk, HasPrefix(p, pk), pk \notin {"*", "?"},
           NEW scope \in Seq(KeyChar), NEW other \in Seq(KeyChar), NEW x \in Seq(KeyChar),
           Len(scope) > 0, Len(other) > 0, scope[1] # other[1], scope[1] \notin {"*", "?"}
    PROVE  ~globMatch(Base(p, scope) \o <<"*">>, Base(p, other) \o x)
<1> DEFINE b == Base(p, scope)
           d == Base(p, other)
           key == d \o x
<1> SUFFICES ASSUME globMatch(b \o <<"*">>, key) PROVE FALSE
    OBVIOUS
<1>1. /\ b \in Seq(KeyChar) /\ Len(b) \in Nat /\ Len(b) >= 5
      /\ b[1] = "g" /\ b[2] = ":" /\ b[3] = pk /\ b[4] = ":" /\ b[5] = scope[1]
    <2>1. /\ b \in Seq(KeyChar) /\ Len(b) = Len(scope) + 5 /\ Len(scope) \in Nat
          /\ b[1] = "g" /\ b[2] = ":" /\ b[3] = pk /\ b[4] = ":"
          /\ \A i \in 1..Len(scope) : b[4 + i] = scope[i]
        BY BaseParts
    <2>2. 1 \in 1..Len(scope) /\ 4 + 1 = 5
        BY <2>1
    <2> HIDE DEF b
    <2>3. b[4 + 1] = scope[1]
        BY <2>1, <2>2
    <2> QED
        BY <2>1, <2>2, <2>3
<1>2. d \in Seq(KeyChar) /\ Len(d) \in Nat /\ Len(d) >= 5 /\ d[5] = other[1]
    <2>1. /\ d \in Seq(KeyChar) /\ Len(d) = Len(other) + 5 /\ Len(other) \in Nat
          /\ \A i \in 1..Len(other) : d[4 + i] = other[i]
        BY BaseParts
    <2>2. 1 \in 1..Len(other) /\ 4 + 1 = 5
        BY <2>1
    <2> HIDE DEF d
    <2>3. d[4 + 1] = other[1]
        BY <2>1, <2>2
    <2> QED
        BY <2>1, <2>2, <2>3
<1> HIDE DEF b, d
<1>3. /\ key \in Seq(KeyChar) /\ Len(x) \in Nat
      /\ \A i \in 1..Len(d) + Len(x) : key[i] = IF i <= Len(d) THEN d[i] ELSE x[i - Len(d)]
    BY <1>2, ConcatProperties
<1> HIDE DEF key
<1>4. key[5] = other[1]
    BY <1>2, <1>3
<1> DEFINE k == 5
<1>5. k \in 0..Len(b) /\ \A i \in 1..k : b[i] \notin {"*", "?"}
    <2>1. \A i \in 1..k : i = 1 \/ i = 2 \/ i = 3 \/ i = 4 \/ i = 5
        OBVIOUS
    <2> QED
        BY <1>1, <2>1
<1>6. k \in 1..k
    OBVIOUS
<1> HIDE DEF k
<1>7. \A i \in 1..k : key[i] = b[i]
    BY <1>1, <1>3, <1>5, ListedStarts
<1> QED
    BY <1>1, <1>4, <1>6, <1>7 DEF k

\* No wildcard.
Literal(a) == \A i \in 1..Len(a) : a[i] \notin {"*", "?"}

LEMMA JoinedLiteral ==
    ASSUME NEW a \in Seq(KeyChar), NEW b \in Seq(KeyChar), Literal(a), Literal(b)
    PROVE  Literal(Joined(a, b))
<1> DEFINE u == Joined(a, b)
           n == Len(a)
<1>1. /\ Len(u) = n + 1 + Len(b) /\ n \in Nat /\ Len(b) \in Nat
      /\ \A i \in 1..n : u[i] = a[i]
      /\ u[n + 1] = ":"
      /\ \A i \in 1..Len(b) : u[n + 1 + i] = b[i]
    BY JoinedParts
<1> HIDE DEF u
<1> SUFFICES ASSUME NEW i \in 1..Len(u) PROVE u[i] \notin {"*", "?"}
    BY DEF Literal, u
<1>2. CASE i \in 1..n
    BY <1>1, <1>2 DEF Literal
<1>3. CASE i = n + 1
    BY <1>1, <1>3
<1>4. CASE i > n + 1
    <2>1. i - (n + 1) \in 1..Len(b) /\ n + 1 + (i - (n + 1)) = i
        BY <1>1, <1>4
    <2>2. u[i] = b[i - (n + 1)]
        BY <1>1, <2>1
    <2> QED
        BY <2>1, <2>2 DEF Literal
<1> QED
    BY <1>1, <1>2, <1>3, <1>4

\* Scopes that are joined of the same number of plain names.
LEMMA NamesApart ==
    ASSUME NEW p \in Seq(KeyChar), NEW pk, HasPrefix(p, pk), pk \notin {"*", "?"},
           NEW scope \in Seq(KeyChar), NEW other \in Seq(KeyChar), NEW x \in Seq(KeyChar),
           Literal(scope), globMatch(Base(p, scope) \o <<"*">>, Base(p, other) \o x)
    PROVE  Starts(Joined(scope, <<>>), Joined(other, x))
<1> DEFINE e == <<>>
           b == Base(p, scope)
           key == Base(p, other) \o x
<1>1. e \in Seq(KeyChar) /\ Literal(e)
    BY DEF Literal
<1>2. Literal(p)
    BY DEF HasPrefix, Literal
<1>3. Literal(b)
    <2> HIDE DEF e
    <2>1. Joined(scope, e) \in Seq(KeyChar) /\ Literal(Joined(scope, e))
        BY <1>1, JoinedParts, JoinedLiteral
    <2>2. b = Joined(p, Joined(scope, e))
        BY DEF Base, e
    <2> QED
        BY <1>2, <2>1, <2>2, JoinedLiteral
<1>4. b \in Seq(KeyChar) /\ Len(b) \in Nat /\ Base(p, other) \in Seq(KeyChar)
    BY BaseParts
<1>5. key \in Seq(KeyChar)
    BY <1>4, ConcatProperties
<1>6. globMatch(b \o <<"*">>, key)
    OBVIOUS
<1> HIDE DEF key, b
<1>7. Starts(b, key)
    <2> DEFINE k == Len(b)
    <2>1. k \in 0..Len(b) /\ \A i \in 1..k : b[i] \notin {"*", "?"}
        BY <1>3, <1>4 DEF Literal
    <2> HIDE DEF k
    <2>2. k <= Len(key) /\ \A i \in 1..k : key[i] = b[i]
        BY <1>4, <1>5, <1>6, <2>1, ListedStarts
    <2> QED
        BY <2>2 DEF Starts, k
<1>8. key = Joined(p, Joined(other, x))
    BY BaseThen DEF key
<1>9. Starts(Joined(p, Joined(scope, e)), Joined(p, Joined(other, x)))
    BY <1>7, <1>8 DEF b, Base, e
<1> HIDE DEF e
<1>10. Joined(scope, e) \in Seq(KeyChar) /\ Joined(other, x) \in Seq(KeyChar)
    BY <1>1, JoinedParts
<1>11. Starts(Joined(scope, e), Joined(other, x))
    BY <1>9, <1>10, StartsAfter
<1> QED
    BY <1>11 DEF e

\* A setup as far as keys go, and one whose names have no separator and no wildcard.
Named(s) ==
    /\ s.appName \in Seq(KeyChar) /\ s.exchangeName \in Seq(KeyChar) /\ s.queueName \in Seq(KeyChar)
    /\ s.isConsumer \in BOOLEAN

PlainNamed(s) ==
    \A name \in {s.appName, s.exchangeName, s.queueName} : Colonless(name) /\ Literal(name)

LEMMA ScopeText ==
    ASSUME NEW s, Named(s)
    PROVE  cacheScope(s) \in Seq(KeyChar)
<1> DEFINE app == s.appName
           exchange == s.exchangeName
           queue == s.queueName
           asConsumer == <<"c">>
           asPublisher == <<"p">>
<1>1. app \in Seq(KeyChar) /\ exchange \in Seq(KeyChar) /\ queue \in Seq(KeyChar)
    BY DEF Named
<1>2. asConsumer \in Seq(KeyChar) /\ asPublisher \in Seq(KeyChar)
    BY DEF KeyChar
<1>3. cacheScope(s) = IF s.isConsumer
                        THEN Joined(asConsumer, Joined(app, Joined(exchange, queue)))
                        ELSE Joined(asPublisher, Joined(app, exchange))
    BY Zenon DEF cacheScope
<1> HIDE DEF app, exchange, queue, asConsumer, asPublisher
<1>4. Joined(exchange, queue) \in Seq(KeyChar) /\ Joined(app, exchange) \in Seq(KeyChar)
    BY <1>1, JoinedParts
<1>5. Joined(app, Joined(exchange, queue)) \in Seq(KeyChar) /\ Joined(asPublisher, Joined(app, exchange)) \in Seq(KeyChar)
    BY <1>1, <1>2, <1>4, JoinedParts
<1>6. Joined(asConsumer, Joined(app, Joined(exchange, queue))) \in Seq(KeyChar)
    BY <1>2, <1>5, JoinedParts
<1> QED
    BY <1>3, <1>5, <1>6

\* The parts of a scope.
LEMMA ScopeShape ==
    ASSUME NEW s, Named(s)
    PROVE  /\ Len(cacheScope(s)) > 0
           /\ cacheScope(s)[1] = IF s.isConsumer THEN "c" ELSE "p"
<1> DEFINE asConsumer == <<"c">>
           asPublisher == <<"p">>
           consumed == Joined(s.appName, Joined(s.exchangeName, s.queueName))
           published == Joined(s.appName, s.exchangeName)
<1>1. /\ s.appName \in Seq(KeyChar) /\ s.exchangeName \in Seq(KeyChar) /\ s.queueName \in Seq(KeyChar)
      /\ s.isConsumer \in BOOLEAN
    BY DEF Named
<1>2. cacheScope(s) = IF s.isConsumer THEN Joined(asConsumer, consumed) ELSE Joined(asPublisher, published)
    BY Zenon DEF cacheScope
<1>3. /\ asConsumer \in Seq(KeyChar) /\ Len(asConsumer) = 1 /\ asConsumer[1] = "c"
      /\ asPublisher \in Seq(KeyChar) /\ Len(asPublisher) = 1 /\ asPublisher[1] = "p"
    BY DEF KeyChar
<1> HIDE DEF asConsumer, asPublisher
<1>4. published \in Seq(KeyChar) /\ Joined(s.exchangeName, s.queueName) \in Seq(KeyChar)
    BY <1>1, JoinedParts
<1>5. consumed \in Seq(KeyChar)
    BY <1>1, <1>4, JoinedParts
<1> HIDE DEF consumed, published
<1>6. ASSUME NEW a \in Seq(KeyChar), NEW b \in Seq(KeyChar), Len(a) = 1
      PROVE  Len(Joined(a, b)) > 0 /\ Joined(a, b)[1] = a[1]
    <2>1. /\ Len(Joined(a, b)) = Len(a) + 1 + Len(b) /\ Len(b) \in Nat
          /\ \A i \in 1..Len(a) : Joined(a, b)[i] = a[i]
        BY JoinedParts
    <2> QED
        BY <1>6, <2>1
<1>7. /\ Len(Joined(asConsumer, consumed)) > 0 /\ Joined(asConsumer, consumed)[1] = "c"
      /\ Len(Joined(asPublisher, published)) > 0 /\ Joined(asPublisher, published)[1] = "p"
    BY <1>3, <1>4, <1>5, <1>6
<1>8. CASE s.isConsumer
    BY <1>2, <1>7, <1>8
<1>9. CASE ~s.isConsumer
    BY <1>2, <1>7, <1>9
<1> QED
    BY <1>8, <1>9

LEMMA ScopeLiteral ==
    ASSUME NEW s, Named(s), PlainNamed(s)
    PROVE  Literal(cacheScope(s))
<1> DEFINE app == s.appName
           exchange == s.exchangeName
           queue == s.queueName
           asConsumer == <<"c">>
           asPublisher == <<"p">>
<1>1. /\ app \in Seq(KeyChar) /\ exchange \in Seq(KeyChar) /\ queue \in Seq(KeyChar)
      /\ Literal(app) /\ Literal(exchange) /\ Literal(queue)
    BY DEF Named, PlainNamed
<1>2. /\ asConsumer \in Seq(KeyChar) /\ asPublisher \in Seq(KeyChar)
      /\ Literal(asConsumer) /\ Literal(asPublisher)
    BY DEF KeyChar, Literal
<1>3. cacheScope(s) = IF s.isConsumer
                              THEN Joined(asConsumer, Joined(app, Joined(exchange, queue)))
                              ELSE Joined(asPublisher, Joined(app, exchange))
    BY Zenon DEF cacheScope
<1> HIDE DEF app, exchange, queue, asConsumer, asPublisher
<1>4. /\ Joined(exchange, queue) \in Seq(KeyChar) /\ Literal(Joined(exchange, queue))
      /\ Joined(app, exchange) \in Seq(KeyChar) /\ Literal(Joined(app, exchange))
    BY <1>1, JoinedParts, JoinedLiteral
<1>5. /\ Joined(app, Joined(exchange, queue)) \in Seq(KeyChar)
      /\ Literal(Joined(app, Joined(exchange, queue)))
    BY <1>1, <1>4, JoinedParts, JoinedLiteral
<1>6. /\ Literal(Joined(asConsumer, Joined(app, Joined(exchange, queue))))
      /\ Literal(Joined(asPublisher, Joined(app, exchange)))
    BY <1>2, <1>4, <1>5, JoinedLiteral
<1> QED
    BY <1>3, <1>6

\* What is joined to a consumer's or a publisher's scope is joined to its last name.
LEMMA ScopeThen ==
    ASSUME NEW r \in Seq(KeyChar), NEW a \in Seq(KeyChar), NEW e \in Seq(KeyChar), NEW x \in Seq(KeyChar)
    PROVE  Joined(Joined(r, Joined(a, e)), x) = Joined(r, Joined(a, Joined(e, x)))
<1>1. Joined(a, e) \in Seq(KeyChar)
    BY JoinedParts
<1>2. Joined(Joined(a, e), x) = Joined(a, Joined(e, x))
    BY JoinedTwice
<1>3. Joined(Joined(r, Joined(a, e)), x) = Joined(r, Joined(Joined(a, e), x))
    BY <1>1, JoinedTwice
<1> QED
    BY <1>2, <1>3

\* Plain names are read back from the key.
LEMMA ScopesRead ==
    ASSUME NEW r \in Seq(KeyChar),
           NEW a \in Seq(KeyChar), Colonless(a), NEW e \in Seq(KeyChar),
           NEW b \in Seq(KeyChar), Colonless(b), NEW f \in Seq(KeyChar),
           NEW x \in Seq(KeyChar), NEW y \in Seq(KeyChar),
           Starts(Joined(Joined(r, Joined(a, e)), x), Joined(Joined(r, Joined(b, f)), y))
    PROVE  a = b /\ Starts(Joined(e, x), Joined(f, y))
<1> DEFINE u == Joined(e, x)
           w == Joined(f, y)
<1>1. u \in Seq(KeyChar) /\ w \in Seq(KeyChar)
    BY JoinedParts
<1>2. Starts(Joined(r, Joined(a, u)), Joined(r, Joined(b, w)))
    BY ScopeThen
<1> HIDE DEF u, w
<1>3. Joined(a, u) \in Seq(KeyChar) /\ Joined(b, w) \in Seq(KeyChar)
    BY <1>1, JoinedParts
<1>4. Starts(Joined(a, u), Joined(b, w))
    BY <1>2, <1>3, StartsAfter
<1>5. a = b /\ Starts(u, w)
    BY <1>1, <1>4, JoinedStarts
<1> QED
    BY <1>5 DEF u, w

\* Scopes of plain names.
LEMMA PlainApart ==
    ASSUME NEW s, NEW t, Named(s), Named(t), PlainNamed(s), PlainNamed(t),
           s.isConsumer = t.isConsumer, NEW x \in Seq(KeyChar), NEW y \in Seq(KeyChar),
           Starts(Joined(cacheScope(s), x), Joined(cacheScope(t), y))
    PROVE  cacheScope(s) = cacheScope(t)
<1> DEFINE asConsumer == <<"c">>
           asPublisher == <<"p">>
           a == s.appName
           b == t.appName
           e == s.exchangeName
           f == t.exchangeName
           q == s.queueName
           r == t.queueName
<1>1. /\ a \in Seq(KeyChar) /\ b \in Seq(KeyChar) /\ e \in Seq(KeyChar) /\ f \in Seq(KeyChar)
      /\ q \in Seq(KeyChar) /\ r \in Seq(KeyChar)
    BY DEF Named
<1>2. Colonless(a) /\ Colonless(b) /\ Colonless(e) /\ Colonless(f) /\ Colonless(q) /\ Colonless(r)
    BY DEF PlainNamed
<1>3. /\ asConsumer \in Seq(KeyChar) /\ asPublisher \in Seq(KeyChar)
      /\ Colonless(asConsumer) /\ Colonless(asPublisher)
    BY DEF KeyChar, Colonless
<1>4. /\ cacheScope(s) = IF s.isConsumer THEN Joined(asConsumer, Joined(a, Joined(e, q)))
                                                     ELSE Joined(asPublisher, Joined(a, e))
      /\ cacheScope(t) = IF s.isConsumer THEN Joined(asConsumer, Joined(b, Joined(f, r)))
                                                     ELSE Joined(asPublisher, Joined(b, f))
    BY Zenon DEF cacheScope
<1> HIDE DEF asConsumer, asPublisher, a, b, e, f, q, r
<1>5. Joined(e, q) \in Seq(KeyChar) /\ Joined(f, r) \in Seq(KeyChar)
    BY <1>1, JoinedParts
<1>6. CASE ~s.isConsumer
    <2>1. Starts(Joined(Joined(asPublisher, Joined(a, e)), x), Joined(Joined(asPublisher, Joined(b, f)), y))
        BY <1>4, <1>6
    <2>2. a = b /\ Starts(Joined(e, x), Joined(f, y))
        <3>1. a \in Seq(KeyChar) /\ b \in Seq(KeyChar) /\ e \in Seq(KeyChar) /\ f \in Seq(KeyChar)
            BY <1>1
        <3>2. Colonless(a) /\ Colonless(b) /\ asPublisher \in Seq(KeyChar)
            BY <1>2, <1>3
        <3> QED
            BY <2>1, <3>1, <3>2, ScopesRead
    <2>3. e = f
        BY <1>1, <1>2, <2>2, JoinedStarts
    <2> QED
        BY <1>4, <1>6, <2>2, <2>3
<1>7. CASE s.isConsumer
    <2> DEFINE u == Joined(e, q)
               w == Joined(f, r)
    <2>1. Starts(Joined(Joined(asConsumer, Joined(a, u)), x), Joined(Joined(asConsumer, Joined(b, w)), y))
        BY <1>4, <1>7
    <2>2. u \in Seq(KeyChar) /\ w \in Seq(KeyChar)
        BY <1>5
    <2> HIDE DEF u, w
    <2>3. a = b /\ Starts(Joined(u, x), Joined(w, y))
        <3>1. a \in Seq(KeyChar) /\ b \in Seq(KeyChar)
            BY <1>1
        <3>2. Colonless(a) /\ Colonless(b) /\ asConsumer \in Seq(KeyChar)
            BY <1>2, <1>3
        <3> QED
            BY <2>1, <2>2, <3>1, <3>2, ScopesRead
    <2>4. Joined(u, x) = Joined(e, Joined(q, x)) /\ Joined(w, y) = Joined(f, Joined(r, y))
        BY <1>1, JoinedTwice DEF u, w
    <2>5. Joined(q, x) \in Seq(KeyChar) /\ Joined(r, y) \in Seq(KeyChar)
        BY <1>1, JoinedParts
    <2>6. e = f /\ Starts(Joined(q, x), Joined(r, y))
        BY <1>1, <1>2, <2>3, <2>4, <2>5, JoinedStarts
    <2>7. q = r
        BY <1>1, <1>2, <2>6, JoinedStarts
    <2> QED
        BY <1>4, <1>7, <2>3, <2>6, <2>7
<1> QED
    BY <1>6, <1>7

\* A glob of a client's scope, and a key of the same kind of another's.
LEMMA Listing ==
    ASSUME NEW s, NEW t, Named(s), Named(t), NEW p \in Seq(KeyChar), NEW pk,
           HasPrefix(p, pk), pk \notin {"*", "?"}, NEW x \in Seq(KeyChar), Len(x) > 0 => x[1] # "*",
           NEW scope, scope = cacheScope(s), NEW other, other = cacheScope(t)
    PROVE  /\ scope = other => globMatch(Base(p, scope) \o <<"*">>, Base(p, other) \o x)
           /\ ((PlainNamed(s) /\ PlainNamed(t)) \/ s.isConsumer # t.isConsumer) /\ scope # other
                => ~globMatch(Base(p, scope) \o <<"*">>, Base(p, other) \o x)
<1>1. /\ scope \in Seq(KeyChar) /\ other \in Seq(KeyChar)
      /\ s.isConsumer \in BOOLEAN /\ t.isConsumer \in BOOLEAN
    BY ScopeText DEF Named
<1>2. Base(p, scope) \in Seq(KeyChar)
    BY <1>1, BaseParts
<1>3. ASSUME scope = other PROVE globMatch(Base(p, scope) \o <<"*">>, Base(p, other) \o x)
    BY <1>2, <1>3, OwnIsListed
<1>4. ASSUME s.isConsumer # t.isConsumer
      PROVE  ~globMatch(Base(p, scope) \o <<"*">>, Base(p, other) \o x)
    <2>1. /\ Len(scope) > 0 /\ Len(other) > 0
          /\ scope[1] = IF s.isConsumer THEN "c" ELSE "p"
          /\ other[1] = IF t.isConsumer THEN "c" ELSE "p"
        BY ScopeShape
    <2>2. scope[1] # other[1] /\ scope[1] \notin {"*", "?"}
        BY <1>1, <1>4, <2>1
    <2> QED
        BY <1>1, <2>1, <2>2, RolesApart
<1>5. ASSUME s.isConsumer = t.isConsumer, PlainNamed(s), PlainNamed(t), scope # other,
             globMatch(Base(p, scope) \o <<"*">>, Base(p, other) \o x)
      PROVE  FALSE
    <2> DEFINE e == <<>>
    <2>1. Literal(scope)
        BY <1>5, ScopeLiteral
    <2>2. Starts(Joined(scope, e), Joined(other, x))
        BY <1>1, <1>5, <2>1, NamesApart
    <2>3. e \in Seq(KeyChar)
        OBVIOUS
    <2> HIDE DEF e
    <2>4. scope = other
        BY <1>5, <2>2, <2>3, PlainApart
    <2> QED
        BY <1>5, <2>4
<1> QED
    BY <1>3, <1>4, <1>5, Zenon

=============================================================================
