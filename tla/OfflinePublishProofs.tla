------------------------ MODULE OfflinePublishProofs ------------------------
(***************************************************************************)
(* The safety of the offline path for any number of replicas and messages, *)
(* any set of Events and any bound on outages and crashes: TypeOK,         *)
(* FlushExclusive, NoAcceptedLoss and DuplicateOnlyInDoubt; and then that  *)
(* nobody waits for what will not come (Awaited, at the end).              *)
(*                                                                         *)
(* None of the last three invariants is inductive.  What a step needs to   *)
(* know beyond them is who owns a dial and the flush after it (Owned),     *)
(* that a message in the loop body is leased (Leased), that a message is   *)
(* in no flush before its own call has cached it (Fresh), that what a      *)
(* flush is about to delete has been taken (Kept) and that a message taken *)
(* once is out of the cache or about to leave it (Single).                 *)
(***************************************************************************)
EXTENDS OfflinePublish, TLAPS

\* A dial, a landed dial and the flush after it belong to the call of Publish
\* that is waiting for them, on its own replica.
Owned ==
    \A r \in Replicas, m \in Msgs :
        /\ dialer[r] = m => Home[m] = r /\ pub[m] = "dial"
        /\ m \in landed[r] => Home[m] = r /\ pub[m] = "flush"
        /\ by[r] = "reconnect" /\ owner[r] = m =>
             Home[m] = r /\ pub[m] = "flush" /\ m \notin landed[r]

\* In the loop body the message is leased to the replica.
Leased ==
    \A r \in Replicas :
        step[r] \in {"read", "publish", "delete", "unroutable", "failed"} =>
            cur[r] \in Msgs /\ lease[cur[r]] = r

\* A call that has not come to the cache.
Early(m) == pub[m] \in {"new", "dial", "flush", "send", "cache", "park"}

Fresh ==
    \A m \in Msgs : Early(m) =>
        m \notin cached /\ \A r \in Replicas : m \notin todo[r] /\ cur[r] # m

Taken(m) == copies[m] > 0 \/ m \in raced

Kept ==
    /\ \A m \in Msgs : pub[m] \in {"signal", "accepted"} =>
         Taken(m) \/ m \in cached \cup lapsed
    /\ \A r \in Replicas, m \in Msgs : step[r] = "delete" /\ cur[r] = m => Taken(m)

Single ==
    \A m \in Msgs : m \notin doubt =>
        /\ copies[m] < 2
        /\ copies[m] > 0 =>
             /\ ~Early(m)
             /\ m \in cached => \E r \in Replicas : step[r] = "delete" /\ cur[r] = m
             /\ \A r \in Replicas : ~(step[r] = "publish" /\ cur[r] = m)

Inv == TypeOK /\ Owned /\ Leased /\ Fresh /\ Kept /\ Single
-----------------------------------------------------------------------------

LEMMA InitInv == Init => Inv
BY ConstantsAssumption
DEF Init, Inv, TypeOK, Owners, Owned, Leased, Fresh, Early, Kept, Taken, Single

\* The types of what Resume and FlushOver write.
CallerType ==
    /\ status \in [Replicas -> {"starting", "running", "closed", "dead"}]
    /\ delayed \in [Replicas -> [Owners -> Nat]]
    /\ pub \in [Msgs -> {"new", "dial", "flush", "send", "cache", "park", "signal",
                         "accepted", "failed"}]
    /\ loop \in [Replicas -> {"idle", "waiting", "flushing"}]

FlushType ==
    /\ step \in [Replicas -> {"off", "keys", "next", "read", "publish", "delete",
                              "unroutable", "failed", "end"}]
    /\ by \in [Replicas -> {"reconnect", "delayed", "retry"}]
    /\ owner \in [Replicas -> Owners]
    /\ todo \in [Replicas -> SUBSET Msgs]
    /\ cur \in [Replicas -> Msgs \cup {Nobody}]
    /\ left \in [Replicas -> Nat]

LEMMA ResumeType ==
    ASSUME CallerType, NEW r \in Replicas, NEW k, NEW o \in Owners, NEW n,
           Resume(r, k, o, n)
    PROVE  CallerType'
<1>1. status' \in [Replicas -> {"starting", "running", "closed", "dead"}]
  BY DEF CallerType, Resume, Started
<1>2. delayed' \in [Replicas -> [Owners -> Nat]]
  BY DEF CallerType, Resume
<1>3. pub' \in [Msgs -> {"new", "dial", "flush", "send", "cache", "park", "signal",
                         "accepted", "failed"}]
  BY DEF CallerType, Resume
<1>4. loop' \in [Replicas -> {"idle", "waiting", "flushing"}]
  BY DEF CallerType, Resume
<1> QED
  BY <1>1, <1>2, <1>3, <1>4 DEF CallerType

LEMMA FlushOverType ==
    ASSUME FlushType, NEW r \in Replicas, FlushOver(r)
    PROVE  FlushType'
BY DEF FlushType, FlushOver, Owners

\* Resume moves a call on from "flush", where its reconnect has left it.
LEMMA ResumePub ==
    ASSUME TypeOK, Owned, NEW r \in Replicas, NEW n, Resume(r, by[r], owner[r], n)
    PROVE  \A m \in Msgs : pub'[m] = pub[m] \/ (pub[m] = "flush" /\ pub'[m] = "send")
BY DEF TypeOK, Owned, Resume

\* What a step must leave alone to keep Single, if it takes nothing.
LEMMA SingleFrame ==
    ASSUME Single, UNCHANGED copies, doubt \subseteq doubt',
           \A m \in Msgs :
               /\ Early(m)' => Early(m)
               /\ m \in cached' => m \in cached
               /\ \A r \in Replicas :
                    /\ step[r] = "delete" /\ cur[r] = m =>
                         \/ step'[r] = "delete" /\ cur'[r] = m
                         \/ m \in doubt' \/ m \notin cached'
                    /\ step'[r] = "publish" /\ cur'[r] = m =>
                         step[r] = "publish" /\ cur[r] = m
    PROVE  Single'
BY DEF Single

\* What a step must leave alone to keep Owned, if it starts and ends no dial.
LEMMA OwnedFrame ==
    ASSUME Owned, UNCHANGED <<dialer, landed, by, owner>>,
           \A m \in Msgs : pub[m] \in {"dial", "flush"} => pub'[m] = pub[m]
    PROVE  Owned'
<1> SUFFICES ASSUME NEW r \in Replicas, NEW m \in Msgs
             PROVE  /\ dialer[r] = m => Home[m] = r /\ pub'[m] = "dial"
                    /\ m \in landed[r] => Home[m] = r /\ pub'[m] = "flush"
                    /\ by[r] = "reconnect" /\ owner[r] = m =>
                         Home[m] = r /\ pub'[m] = "flush" /\ m \notin landed[r]
  BY DEF Owned
<1>1. /\ dialer[r] = m => Home[m] = r /\ pub[m] = "dial"
      /\ m \in landed[r] => Home[m] = r /\ pub[m] = "flush"
      /\ by[r] = "reconnect" /\ owner[r] = m =>
           Home[m] = r /\ pub[m] = "flush" /\ m \notin landed[r]
  BY DEF Owned
<1> QED
  BY <1>1

LEMMA ListKeysInv ==
    ASSUME Inv, NEW r \in Replicas, ListKeys(r) PROVE Inv'
<1> USE DEF Inv, store, world, conn, loops, flush, calls, budget, past
<1>1. TypeOK'
  <2>1. CallerType /\ FlushType /\ owner[r] \in Owners
    BY DEF TypeOK, CallerType, FlushType
  <2>2. CallerType'
    BY <2>1, ResumeType DEF ListKeys, CallerType
  <2>3. FlushType'
    <3>1. CASE FlushOver(r)
      BY <2>1, <3>1, FlushOverType
    <3>2. CASE ~FlushOver(r)
      <4>1. /\ step' = [step EXCEPT ![r] = "next"]
            /\ todo' = [todo EXCEPT ![r] = cached]
            /\ UNCHANGED <<by, owner, cur, left>>
        BY <3>2 DEF ListKeys, cachedMessageKeys
      <4>2. cached \in SUBSET Msgs
        BY DEF TypeOK
      <4> QED
        BY <2>1, <4>1, <4>2 DEF FlushType
    <3> QED
      BY <3>1, <3>2
  <2> QED
    BY <2>2, <2>3 DEF ListKeys, CallerType, FlushType, TypeOK
<1>2. Owned'
  BY ConstantsAssumption DEF ListKeys, Resume, FlushOver, Started, Owned, TypeOK, Owners
<1>3. Leased'
  BY ConstantsAssumption DEF ListKeys, Resume, FlushOver, Started, Leased, TypeOK
<1>a. /\ step[r] = "keys"
      /\ UNCHANGED <<cached, copies, lapsed, raced, doubt>>
      /\ step' \in {[step EXCEPT ![r] = "next"], [step EXCEPT ![r] = "off"]}
      /\ todo' \in {[todo EXCEPT ![r] = cached], [todo EXCEPT ![r] = {}]}
      /\ cur' \in {cur, [cur EXCEPT ![r] = Nobody]}
  BY DEF ListKeys, cachedMessageKeys, FlushOver
<1>b. \A m \in Msgs : pub'[m] = pub[m] \/ (pub[m] = "flush" /\ pub'[m] = "send")
  BY ResumePub DEF ListKeys
<1>c. /\ Nobody \notin Msgs
      /\ \A q \in Replicas :
           /\ todo'[q] \subseteq todo[q] \cup cached
           /\ cur'[q] \in {cur[q], Nobody}
           /\ step'[q] = "delete" => step[q] = "delete"
  BY <1>a, ConstantsAssumption DEF TypeOK
<1>4. Fresh'
  BY <1>a, <1>b, <1>c DEF Fresh, Early
<1>5. Kept'
  BY <1>a, <1>b, <1>c DEF Kept, Taken
<1>6. Single'
  BY <1>a, <1>b, SingleFrame DEF Early, TypeOK
<1> QED
  BY <1>1, <1>2, <1>3, <1>4, <1>5, <1>6

LEMMA ReserveInv ==
    ASSUME Inv, NEW r \in Replicas, Reserve(r) PROVE Inv'
<1> USE DEF Inv, store, world, conn, loops, flush, calls, budget, past
<1>0. PICK m \in todo[r] : /\ todo' = [todo EXCEPT ![r] = @ \ {m}]
                           /\ reserveCachedMessage(r, m)
  BY DEF Reserve
<1>a. m \in Msgs /\ Nobody \notin Replicas /\ Nobody \notin Msgs
  BY ConstantsAssumption DEF TypeOK
<1>b. /\ lease' \in {lease, [lease EXCEPT ![m] = r]}
      /\ lease[m] # Nobody => lease' = lease
  BY <1>0, <1>a DEF reserveCachedMessage, TypeOK
<1>c. \/ UNCHANGED <<cur, step>>
      \/ /\ cur' = [cur EXCEPT ![r] = m]
         /\ step' = [step EXCEPT ![r] = "read"]
         /\ lease' = [lease EXCEPT ![m] = r]
  BY <1>0 DEF reserveCachedMessage
<1>d. left' \in [Replicas -> Nat]
  <2>1. left' \in {left, [left EXCEPT ![r] = left[r] + 1]}
    BY <1>0 DEF reserveCachedMessage
  <2>2. left \in [Replicas -> Nat]
    BY DEF TypeOK
  <2> QED
    BY <2>1, <2>2
<1>1. TypeOK'
  <2>0. /\ lease \in [Msgs -> Replicas \cup {Nobody}]
        /\ cur \in [Replicas -> Msgs \cup {Nobody}]
    BY DEF TypeOK
  <2>1. lease' \in [Msgs -> Replicas \cup {Nobody}]
    BY <2>0, <1>a, <1>b
  <2>2. cur' \in [Replicas -> Msgs \cup {Nobody}]
    BY <2>0, <1>a, <1>c
  <2>3. step' \in [Replicas -> {"off", "keys", "next", "read", "publish", "delete",
                                "unroutable", "failed", "end"}]
    BY <1>c DEF TypeOK
  <2>4. todo' \in [Replicas -> SUBSET Msgs]
    BY <1>0 DEF TypeOK
  <2> QED
    BY <1>d, <2>1, <2>2, <2>3, <2>4 DEF Reserve, TypeOK
<1>2. Owned'
  BY DEF Reserve, Owned
<1>3. Leased'
  BY <1>a, <1>b, <1>c DEF Leased, TypeOK
<1>4. Fresh'
  BY <1>0, <1>c DEF Reserve, Fresh, Early, TypeOK
<1>5. Kept'
  BY <1>c DEF Reserve, Kept, Taken, TypeOK
<1>6. Single'
  <2>1. step[r] = "next" /\ UNCHANGED <<copies, doubt, cached, pub>>
    BY DEF Reserve
  <2> QED
    BY <1>c, <2>1, SingleFrame DEF Early, TypeOK
<1> QED
  BY <1>1, <1>2, <1>3, <1>4, <1>5, <1>6

LEMMA ReadInv ==
    ASSUME Inv, NEW r \in Replicas, Read(r) PROVE Inv'
<1> USE DEF Inv, store, world, conn, loops, flush, calls, budget, past
<1>1. TypeOK'
  BY ConstantsAssumption DEF Read, TypeOK, Owners
<1>2. Owned'
  BY ConstantsAssumption DEF Read, Owned, TypeOK, Owners
<1>3. Leased'
  BY ConstantsAssumption DEF Read, Leased, TypeOK
<1>4. Fresh'
  BY ConstantsAssumption DEF Read, Fresh, Early, TypeOK
<1>5. Kept'
  BY ConstantsAssumption DEF Read, Kept, Taken, TypeOK
<1>6. Single'
  BY ConstantsAssumption DEF Read, Single, Early, TypeOK, Leased, Fresh
<1> QED
  BY <1>1, <1>2, <1>3, <1>4, <1>5, <1>6

LEMMA PublishCachedInv ==
    ASSUME Inv, NEW r \in Replicas, PublishCached(r) PROVE Inv'
<1> USE DEF Inv, store, world, conn, loops, flush, calls, budget, past
<1>0. PICK a \in Attempt(r, cur[r], owner[r]) :
         /\ Apply(r, cur[r], a)
         /\ step' = [step EXCEPT ![r] = AfterFlushed(a.err)]
  BY DEF PublishCached
<1>a. cur[r] \in Msgs
  BY DEF PublishCached, Leased
<1>1. TypeOK'
  <2>1. copies' \in [Msgs -> 0..2]
    BY <1>0, <1>a DEF Apply, TypeOK
  <2>2. link' \in [Replicas -> BOOLEAN]
    BY <1>0 DEF Apply, TypeOK
  <2>3. outages' \in Nat
    BY <1>0 DEF Apply, TypeOK
  <2>4. doubt' \in SUBSET Msgs /\ raced' \in SUBSET Msgs
    BY <1>0, <1>a DEF Apply, TypeOK
  <2>5. step' \in [Replicas -> {"off", "keys", "next", "read", "publish", "delete",
                                "unroutable", "failed", "end"}]
    BY <1>0 DEF AfterFlushed, TypeOK
  <2> QED
    BY <2>1, <2>2, <2>3, <2>4, <2>5 DEF PublishCached, TypeOK
<1>2. Owned'
  BY ConstantsAssumption DEF PublishCached, Apply, Owned, TypeOK, Owners
<1>3. Leased'
  BY ConstantsAssumption DEF PublishCached, Apply, Leased, TypeOK
<1>4. Fresh'
  BY ConstantsAssumption DEF PublishCached, Apply, Fresh, Early, TypeOK
<1>5. Kept'
  BY ConstantsAssumption DEF AfterFlushed, PublishCached, Apply, Kept, Taken, TypeOK
<1>6. Single'
  BY ConstantsAssumption DEF AfterFlushed, PublishCached, Apply, Single, Early, TypeOK, Leased, Fresh
<1> QED
  BY <1>1, <1>2, <1>3, <1>4, <1>5, <1>6

LEMMA DeleteCachedInv ==
    ASSUME Inv, NEW r \in Replicas, DeleteCached(r) PROVE Inv'
<1> USE DEF Inv, store, world, conn, loops, flush, calls, budget, past
<1>1. TypeOK'
  <2>1. cur[r] \in Msgs
    BY DEF DeleteCached, Leased
  <2>2. cached' \in SUBSET Msgs /\ doubt' \in SUBSET Msgs
    BY <2>1 DEF DeleteCached, TypeOK
  <2> QED
    BY <2>2 DEF DeleteCached, TypeOK
<1>2. Owned'
  BY ConstantsAssumption DEF DeleteCached, Owned, TypeOK, Owners
<1>3. Leased'
  BY ConstantsAssumption DEF DeleteCached, Leased, TypeOK
<1>4. Fresh'
  BY ConstantsAssumption DEF DeleteCached, Fresh, Early, TypeOK
<1>5. Kept'
  BY ConstantsAssumption DEF DeleteCached, Kept, Taken, TypeOK
<1>6. Single'
  BY ConstantsAssumption DEF DeleteCached, Single, Early, TypeOK, Leased, Fresh
<1> QED
  BY <1>1, <1>2, <1>3, <1>4, <1>5, <1>6

LEMMA ReleaseInv ==
    ASSUME Inv, NEW r \in Replicas, Release(r) PROVE Inv'
<1> USE DEF Inv, store, world, conn, loops, flush, calls, budget, past
<1>1. TypeOK'
  <2>1. lease' \in [Msgs -> Replicas \cup {Nobody}]
    BY DEF Release, TypeOK
  <2>2. left' \in [Replicas -> Nat]
    <3>1. left' \in {left, [left EXCEPT ![r] = left[r] + 1]}
      BY DEF Release
    <3>2. left \in [Replicas -> Nat]
      BY DEF TypeOK
    <3> QED
      BY <3>1, <3>2
  <2>3. step' \in [Replicas -> {"off", "keys", "next", "read", "publish", "delete",
                                "unroutable", "failed", "end"}]
    BY DEF Release, TypeOK
  <2> QED
    BY <2>1, <2>2, <2>3 DEF Release, TypeOK
<1>2. Owned'
  BY ConstantsAssumption DEF Release, Owned, TypeOK, Owners
<1>3. Leased'
  <2>1. /\ cur' = cur /\ cur[r] \in Msgs /\ lease[cur[r]] = r
        /\ step' \in {[step EXCEPT ![r] = "next"], [step EXCEPT ![r] = "end"]}
        /\ lease' \in {lease, [lease EXCEPT ![cur[r]] = Nobody]}
    BY DEF Release, Leased
  <2> QED
    BY <2>1 DEF Leased, TypeOK
<1>4. Fresh'
  BY ConstantsAssumption DEF Release, Fresh, Early, TypeOK
<1>5. Kept'
  BY ConstantsAssumption DEF Release, Kept, Taken, TypeOK
<1>6. Single'
  BY ConstantsAssumption DEF Release, Single, Early, TypeOK, Leased, Fresh
<1> QED
  BY <1>1, <1>2, <1>3, <1>4, <1>5, <1>6

LEMMA EndFlushInv ==
    ASSUME Inv, NEW r \in Replicas, EndFlush(r) PROVE Inv'
<1> USE DEF Inv, store, world, conn, loops, flush, calls, budget, past
<1>1. TypeOK'
  <2>1. CallerType /\ FlushType /\ owner[r] \in Owners
    BY DEF TypeOK, CallerType, FlushType
  <2>2. CallerType' /\ FlushType'
    BY <2>1, ResumeType, FlushOverType DEF EndFlush
  <2>3. sig' \in [Replicas -> BOOLEAN]
    BY DEF EndFlush, TypeOK
  <2> QED
    BY <2>2, <2>3 DEF EndFlush, CallerType, FlushType, TypeOK
<1>2. Owned'
  BY ConstantsAssumption DEF EndFlush, Resume, FlushOver, Started, Owned, TypeOK, Owners
<1>3. Leased'
  BY ConstantsAssumption DEF EndFlush, Resume, FlushOver, Started, Leased, TypeOK
<1>4. Fresh'
  BY ConstantsAssumption DEF EndFlush, Resume, FlushOver, Started, Fresh, Early, TypeOK, Owned
<1>5. Kept'
  BY ConstantsAssumption DEF EndFlush, Resume, FlushOver, Started, Kept, Taken, TypeOK
<1>6. Single'
  <2>1. /\ step[r] \in {"end", "next"}
        /\ UNCHANGED <<cached, copies, doubt>>
        /\ step' = [step EXCEPT ![r] = "off"]
        /\ cur' = [cur EXCEPT ![r] = Nobody]
    BY DEF EndFlush, FlushOver
  <2>2. \A m \in Msgs : pub'[m] = pub[m] \/ (pub[m] = "flush" /\ pub'[m] = "send")
    BY ResumePub DEF EndFlush
  <2> QED
    BY <2>1, <2>2, SingleFrame DEF Early, TypeOK
<1> QED
  BY <1>1, <1>2, <1>3, <1>4, <1>5, <1>6

LEMMA MonitorDialsInv ==
    ASSUME Inv, NEW r \in Replicas, MonitorDials(r) PROVE Inv'
<1> USE DEF Inv, store, world, conn, loops, flush, calls, budget, past
<1>1. TypeOK'
  BY ConstantsAssumption DEF MonitorDials, TypeOK, Owners
<1>2. Owned'
  BY ConstantsAssumption DEF MonitorDials, Owned, TypeOK, Owners
<1>3. Leased'
  BY ConstantsAssumption DEF MonitorDials, Leased, TypeOK
<1>4. Fresh'
  BY ConstantsAssumption DEF MonitorDials, Fresh, Early, TypeOK
<1>5. Kept'
  BY ConstantsAssumption DEF MonitorDials, Kept, Taken, TypeOK
<1>6. Single'
  BY ConstantsAssumption DEF MonitorDials, Single, Early, TypeOK, Leased, Fresh
<1> QED
  BY <1>1, <1>2, <1>3, <1>4, <1>5, <1>6

LEMMA DialLandsInv ==
    ASSUME Inv, NEW r \in Replicas, DialLands(r) PROVE Inv'
<1> USE DEF Inv, store, world, conn, loops, flush, calls, budget, past
<1>1. TypeOK'
  BY ConstantsAssumption DEF DialLands, TypeOK, Owners
<1>2. Owned'
  BY ConstantsAssumption DEF DialLands, Owned, TypeOK, Owners
<1>3. Leased'
  BY ConstantsAssumption DEF DialLands, Leased, TypeOK
<1>4. Fresh'
  BY ConstantsAssumption DEF DialLands, Fresh, Early, TypeOK, Owned
<1>5. Kept'
  BY ConstantsAssumption DEF DialLands, Kept, Taken, TypeOK
<1>6. Single'
  <2>1. \A m \in Msgs : pub'[m] = pub[m] \/ (pub[m] = "dial" /\ pub'[m] = "flush")
    BY DEF DialLands, Owned, TypeOK
  <2> QED
    BY <2>1, SingleFrame DEF DialLands, Early
<1> QED
  BY <1>1, <1>2, <1>3, <1>4, <1>5, <1>6

LEMMA DialFailsInv ==
    ASSUME Inv, NEW r \in Replicas, DialFails(r) PROVE Inv'
<1> USE DEF Inv, store, world, conn, loops, flush, calls, budget, past
<1>1. TypeOK'
  BY ConstantsAssumption DEF DialFails, Started, TypeOK, Owners
<1>2. Owned'
  BY ConstantsAssumption DEF DialFails, Started, Owned, TypeOK, Owners
<1>3. Leased'
  BY ConstantsAssumption DEF DialFails, Started, Leased, TypeOK
<1>4. Fresh'
  BY ConstantsAssumption DEF DialFails, Started, Fresh, Early, TypeOK, Owned
<1>5. Kept'
  BY ConstantsAssumption DEF DialFails, Started, Kept, Taken, TypeOK
<1>6. Single'
  <2>1. \A m \in Msgs :
          pub'[m] = pub[m] \/ (pub[m] = "dial" /\ pub'[m] \in {"failed", "cache"})
    BY DEF DialFails, Owned, TypeOK
  <2> QED
    BY <2>1, SingleFrame DEF DialFails, Early
<1> QED
  BY <1>1, <1>2, <1>3, <1>4, <1>5, <1>6

LEMMA ReconnectFlushesInv ==
    ASSUME Inv, NEW r \in Replicas, NEW o \in Owners, ReconnectFlushes(r, o) PROVE Inv'
<1> USE DEF Inv, store, world, conn, loops, flush, calls, budget, past
<1>1. TypeOK'
  <2>1. CallerType /\ FlushType
    BY DEF TypeOK, CallerType, FlushType
  <2>2. CallerType'
    BY <2>1, ResumeType DEF ReconnectFlushes, BeginFlush, CallerType
  <2>3. FlushType'
    BY <2>1 DEF ReconnectFlushes, BeginFlush, FlushType
  <2> QED
    BY <2>2, <2>3 DEF ReconnectFlushes, CallerType, FlushType, TypeOK
<1>2. Owned'
  BY ConstantsAssumption DEF ReconnectFlushes, BeginFlush, Resume, Started, Owned, TypeOK, Owners
<1>3. Leased'
  BY ConstantsAssumption DEF ReconnectFlushes, BeginFlush, Resume, Started, Leased, TypeOK
<1>4. Fresh'
  BY ConstantsAssumption DEF ReconnectFlushes, BeginFlush, Resume, Started, Fresh, Early, TypeOK, Owned
<1>5. Kept'
  BY ConstantsAssumption DEF ReconnectFlushes, BeginFlush, Resume, Started, Kept, Taken, TypeOK
<1>6. Single'
  <2>1. /\ UNCHANGED <<cached, copies, doubt, cur>>
        /\ \/ UNCHANGED step
           \/ step[r] = "off" /\ step' = [step EXCEPT ![r] = "keys"]
    BY DEF ReconnectFlushes, BeginFlush
  <2>2. \A m \in Msgs : pub'[m] = pub[m] \/ (pub[m] = "flush" /\ pub'[m] = "send")
    BY DEF ReconnectFlushes, BeginFlush, Resume, Owned, TypeOK
  <2> QED
    BY <2>1, <2>2, SingleFrame DEF Early, TypeOK
<1> QED
  BY <1>1, <1>2, <1>3, <1>4, <1>5, <1>6

LEMMA DelayedFlushesInv ==
    ASSUME Inv, NEW r \in Replicas, NEW o \in Owners, DelayedFlushes(r, o) PROVE Inv'
<1> USE DEF Inv, store, world, conn, loops, flush, calls, budget, past
<1>1. TypeOK'
  <2>1. delayed' \in [Replicas -> [Owners -> Nat]]
    BY DEF DelayedFlushes, TypeOK
  <2>2. step' \in {step, [step EXCEPT ![r] = "keys"]}
    BY DEF DelayedFlushes
  <2>3. by' \in {by, [by EXCEPT ![r] = "delayed"]}
    BY DEF DelayedFlushes
  <2>4. owner' \in {owner, [owner EXCEPT ![r] = o]}
    BY DEF DelayedFlushes
  <2>5. FlushType /\ UNCHANGED <<todo, cur, left>>
    BY DEF DelayedFlushes, FlushType, TypeOK
  <2>6. FlushType'
    BY <2>2, <2>3, <2>4, <2>5 DEF FlushType
  <2> QED
    BY <2>1, <2>6 DEF DelayedFlushes, FlushType, TypeOK
<1>2. Owned'
  BY ConstantsAssumption DEF DelayedFlushes, Owned, TypeOK, Owners
<1>3. Leased'
  BY ConstantsAssumption DEF DelayedFlushes, Leased, TypeOK
<1>4. Fresh'
  BY ConstantsAssumption DEF DelayedFlushes, Fresh, Early, TypeOK
<1>5. Kept'
  BY ConstantsAssumption DEF DelayedFlushes, Kept, Taken, TypeOK
<1>6. Single'
  BY ConstantsAssumption DEF DelayedFlushes, Single, Early, TypeOK, Leased, Fresh
<1> QED
  BY <1>1, <1>2, <1>3, <1>4, <1>5, <1>6

LEMMA DelayedDroppedInv ==
    ASSUME Inv, NEW r \in Replicas, NEW o \in Owners, DelayedDropped(r, o) PROVE Inv'
<1> USE DEF Inv, store, world, conn, loops, flush, calls, budget, past
<1>1. TypeOK'
  <2>1. delayed' \in [Replicas -> [Owners -> Nat]]
    BY DEF DelayedDropped, TypeOK
  <2> QED
    BY <2>1 DEF DelayedDropped, TypeOK
<1>2. Owned'
  BY ConstantsAssumption DEF DelayedDropped, Owned, TypeOK, Owners
<1>3. Leased'
  BY ConstantsAssumption DEF DelayedDropped, Leased, TypeOK
<1>4. Fresh'
  BY ConstantsAssumption DEF DelayedDropped, Fresh, Early, TypeOK
<1>5. Kept'
  BY ConstantsAssumption DEF DelayedDropped, Kept, Taken, TypeOK
<1>6. Single'
  BY ConstantsAssumption DEF DelayedDropped, Single, Early, TypeOK, Leased, Fresh
<1> QED
  BY <1>1, <1>2, <1>3, <1>4, <1>5, <1>6

LEMMA LoopWakesInv ==
    ASSUME Inv, NEW r \in Replicas, LoopWakes(r) PROVE Inv'
<1> USE DEF Inv, store, world, conn, loops, flush, calls, budget, past
<1>1. TypeOK'
  BY ConstantsAssumption DEF LoopWakes, TypeOK, Owners
<1>2. Owned'
  BY ConstantsAssumption DEF LoopWakes, Owned, TypeOK, Owners
<1>3. Leased'
  BY ConstantsAssumption DEF LoopWakes, Leased, TypeOK
<1>4. Fresh'
  BY ConstantsAssumption DEF LoopWakes, Fresh, Early, TypeOK
<1>5. Kept'
  BY ConstantsAssumption DEF LoopWakes, Kept, Taken, TypeOK
<1>6. Single'
  BY ConstantsAssumption DEF LoopWakes, Single, Early, TypeOK, Leased, Fresh
<1> QED
  BY <1>1, <1>2, <1>3, <1>4, <1>5, <1>6

LEMMA LoopFiresInv ==
    ASSUME Inv, NEW r \in Replicas, LoopFires(r) PROVE Inv'
<1> USE DEF Inv, store, world, conn, loops, flush, calls, budget, past
<1>1. TypeOK'
  <2>1. CallerType /\ FlushType /\ Background \in Owners
    BY DEF TypeOK, CallerType, FlushType, Owners
  <2>2. CallerType'
    BY <2>1, ResumeType DEF LoopFires, BeginFlush, CallerType
  <2>3. FlushType'
    BY <2>1 DEF LoopFires, BeginFlush, FlushType
  <2> QED
    BY <2>2, <2>3 DEF LoopFires, CallerType, FlushType, TypeOK
<1>2. Owned'
  BY ConstantsAssumption DEF LoopFires, BeginFlush, Resume, Started, Owned, TypeOK, Owners
<1>3. Leased'
  BY ConstantsAssumption DEF LoopFires, BeginFlush, Resume, Started, Leased, TypeOK
<1>4. Fresh'
  BY ConstantsAssumption DEF LoopFires, BeginFlush, Resume, Started, Fresh, Early, TypeOK, Owned
<1>5. Kept'
  BY ConstantsAssumption DEF LoopFires, BeginFlush, Resume, Started, Kept, Taken, TypeOK
<1>6. Single'
  BY ConstantsAssumption DEF LoopFires, BeginFlush, Resume, Started, Single, Early, TypeOK, Leased, Fresh
<1> QED
  BY <1>1, <1>2, <1>3, <1>4, <1>5, <1>6

LEMMA LinkDropsInv ==
    ASSUME Inv, NEW r \in Replicas, LinkDrops(r) PROVE Inv'
<1> USE DEF Inv, store, world, conn, loops, flush, calls, budget, past
<1>1. TypeOK'
  <2>1. link' \in [Replicas -> BOOLEAN]
    BY DEF LinkDrops, TypeOK
  <2>2. outages' \in Nat
    BY DEF LinkDrops, TypeOK
  <2> QED
    BY <2>1, <2>2 DEF LinkDrops, TypeOK
<1>2. Owned'
  BY ConstantsAssumption DEF LinkDrops, Owned, TypeOK, Owners
<1>3. Leased'
  BY ConstantsAssumption DEF LinkDrops, Leased, TypeOK
<1>4. Fresh'
  BY ConstantsAssumption DEF LinkDrops, Fresh, Early, TypeOK
<1>5. Kept'
  BY ConstantsAssumption DEF LinkDrops, Kept, Taken, TypeOK
<1>6. Single'
  BY ConstantsAssumption DEF LinkDrops, Single, Early, TypeOK, Leased, Fresh
<1> QED
  BY <1>1, <1>2, <1>3, <1>4, <1>5, <1>6

LEMMA CloseInv ==
    ASSUME Inv, NEW r \in Replicas, Close(r) PROVE Inv'
<1> USE DEF Inv, store, world, conn, loops, flush, calls, budget, past
<1>1. TypeOK'
  BY ConstantsAssumption DEF Close, TypeOK, Owners
<1>2. Owned'
  BY ConstantsAssumption DEF Close, Owned, TypeOK, Owners
<1>3. Leased'
  BY ConstantsAssumption DEF Close, Leased, TypeOK
<1>4. Fresh'
  BY ConstantsAssumption DEF Close, Fresh, Early, TypeOK
<1>5. Kept'
  BY ConstantsAssumption DEF Close, Kept, Taken, TypeOK
<1>6. Single'
  BY ConstantsAssumption DEF Close, Single, Early, TypeOK, Leased, Fresh
<1> QED
  BY <1>1, <1>2, <1>3, <1>4, <1>5, <1>6

LEMMA CrashInv ==
    ASSUME Inv, NEW r \in Replicas, Crash(r) PROVE Inv'
<1> USE DEF Inv, store, world, conn, loops, flush, calls, budget, past
<1>1. TypeOK'
  <2>1. FlushType'
    BY FlushOverType DEF Crash, FlushType, TypeOK
  <2>2. CallerType'
    BY DEF Crash, CallerType, TypeOK
  <2>3. link' \in [Replicas -> BOOLEAN] /\ sig' \in [Replicas -> BOOLEAN]
    BY DEF Crash, TypeOK
  <2>4. dialer' \in [Replicas -> Owners \cup {Nobody}]
    BY DEF Crash, TypeOK
  <2>5. landed' \in [Replicas -> SUBSET Owners] /\ crashes' \in Nat
    BY DEF Crash, TypeOK
  <2>6. doubt' \in SUBSET Msgs
    BY DEF Crash, TypeOK, Leased
  <2> QED
    BY <2>1, <2>2, <2>3, <2>4, <2>5, <2>6 DEF Crash, FlushType, CallerType, TypeOK
<1>2. Owned'
  BY ConstantsAssumption DEF Crash, FlushOver, Owned, TypeOK, Owners
<1>3. Leased'
  BY ConstantsAssumption DEF Crash, FlushOver, Leased, TypeOK
<1>4. Fresh'
  BY ConstantsAssumption DEF Crash, FlushOver, Fresh, Early, TypeOK
<1>5. Kept'
  BY ConstantsAssumption DEF Crash, FlushOver, Kept, Taken, TypeOK
<1>6. Single'
  <2>1. UNCHANGED <<copies, cached>> /\ doubt \subseteq doubt'
    BY DEF Crash
  <2>2. \A k \in Msgs : Early(k)' => Early(k)
    BY DEF Crash, Early
  <2>3. /\ step' = [step EXCEPT ![r] = "off"]
        /\ cur' = [cur EXCEPT ![r] = Nobody]
        /\ step[r] = "delete" => cur[r] \in doubt'
    BY DEF Crash, FlushOver
  <2> QED
    BY <2>1, <2>2, <2>3, SingleFrame DEF TypeOK
<1> QED
  BY <1>1, <1>2, <1>3, <1>4, <1>5, <1>6

LEMMA RestartInv ==
    ASSUME Inv, NEW r \in Replicas, Restart(r) PROVE Inv'
<1> USE DEF Inv, store, world, conn, loops, flush, calls, budget, past
<1>1. TypeOK'
  BY ConstantsAssumption DEF Restart, TypeOK, Owners
<1>2. Owned'
  BY ConstantsAssumption DEF Restart, Owned, TypeOK, Owners
<1>3. Leased'
  BY ConstantsAssumption DEF Restart, Leased, TypeOK
<1>4. Fresh'
  BY ConstantsAssumption DEF Restart, Fresh, Early, TypeOK
<1>5. Kept'
  BY ConstantsAssumption DEF Restart, Kept, Taken, TypeOK
<1>6. Single'
  BY ConstantsAssumption DEF Restart, Single, Early, TypeOK, Leased, Fresh
<1> QED
  BY <1>1, <1>2, <1>3, <1>4, <1>5, <1>6

LEMMA PublishInv ==
    ASSUME Inv, NEW m \in Msgs, Publish(m) PROVE Inv'
<1> USE DEF Inv, store, world, conn, loops, flush, calls, budget, past
<1>0. PICK to \in {"send", "failed", "cache", "dial"} :
         /\ pub[m] = "new" /\ pub' = [pub EXCEPT ![m] = to]
         /\ \/ dialer' = dialer
            \/ to = "dial" /\ dialer' = [dialer EXCEPT ![Home[m]] = m]
  BY DEF Publish
<1>a. Home[m] \in Replicas
  BY ConstantsAssumption
<1>b. UNCHANGED <<cached, lease, up, bound, copies, status, link, landed, sig, loop,
                  delayed, step, by, owner, todo, cur, left, cancelled, outages,
                  crashes, lapsed, raced, doubt>>
  BY DEF Publish
<1>1. TypeOK'
  <2>0. /\ pub \in [Msgs -> {"new", "dial", "flush", "send", "cache", "park", "signal",
                             "accepted", "failed"}]
        /\ dialer \in [Replicas -> Owners \cup {Nobody}]
    BY DEF TypeOK
  <2>1. pub' \in [Msgs -> {"new", "dial", "flush", "send", "cache", "park", "signal",
                           "accepted", "failed"}]
    BY <2>0, <1>0
  <2>2. dialer' \in [Replicas -> Owners \cup {Nobody}]
    BY <2>0, <1>0, <1>a DEF Owners
  <2> QED
    BY <2>1, <2>2, <1>b DEF TypeOK
<1>c. \A k \in Msgs : pub'[k] = IF k = m THEN to ELSE pub[k]
  BY <1>0 DEF TypeOK
<1>d. \A q \in Replicas : dialer'[q] = dialer[q] \/ (q = Home[m] /\ dialer'[q] = m /\ to = "dial")
  BY <1>0, <1>a DEF TypeOK
<1>2. Owned'
  <2> SUFFICES ASSUME NEW q \in Replicas, NEW k \in Msgs
               PROVE  /\ dialer'[q] = k => Home[k] = q /\ pub'[k] = "dial"
                      /\ k \in landed[q] => Home[k] = q /\ pub'[k] = "flush"
                      /\ by[q] = "reconnect" /\ owner[q] = k =>
                           Home[k] = q /\ pub'[k] = "flush" /\ k \notin landed[q]
    BY <1>b DEF Owned
  <2>1. /\ dialer[q] = k => Home[k] = q /\ pub[k] = "dial"
        /\ k \in landed[q] => Home[k] = q /\ pub[k] = "flush"
        /\ by[q] = "reconnect" /\ owner[q] = k =>
             Home[k] = q /\ pub[k] = "flush" /\ k \notin landed[q]
    BY DEF Owned
  <2>2. CASE k = m
    BY <2>1, <2>2, <1>0, <1>c, <1>d
  <2>3. CASE k # m
    BY <2>1, <2>3, <1>c, <1>d
  <2> QED
    BY <2>2, <2>3
<1>3. Leased'
  BY <1>b DEF Leased
<1>4. Fresh'
  BY <1>0, <1>b, <1>c DEF Fresh, Early
<1>5. Kept'
  BY <1>0, <1>b, <1>c DEF Kept, Taken
<1>6. Single'
  BY <1>0, <1>b, <1>c DEF Single, Early
<1> QED
  BY <1>1, <1>2, <1>3, <1>4, <1>5, <1>6

LEMMA SendInv ==
    ASSUME Inv, NEW m \in Msgs, Send(m) PROVE Inv'
<1> USE DEF Inv, store, world, conn, loops, flush, calls, budget, past
<1>0. PICK a \in Attempt(Home[m], m, m) :
         /\ Apply(Home[m], m, a)
         /\ pub' = [pub EXCEPT ![m] = AfterSent(a.err)]
  BY DEF Send
<1>1. TypeOK'
  <2>0. /\ copies \in [Msgs -> 0..2] /\ link \in [Replicas -> BOOLEAN]
        /\ outages \in Nat /\ Home[m] \in Replicas
    BY ConstantsAssumption DEF TypeOK
  <2>1. copies' \in [Msgs -> 0..2]
    BY <2>0, <1>0 DEF Apply
  <2>2. link' \in [Replicas -> BOOLEAN]
    BY <2>0, <1>0 DEF Apply
  <2>3. outages' \in Nat
    BY <2>0, <1>0 DEF Apply
  <2>4. doubt' \in SUBSET Msgs /\ raced' \in SUBSET Msgs
    BY <1>0 DEF Apply, TypeOK
  <2>5. pub' \in [Msgs -> {"new", "dial", "flush", "send", "cache", "park", "signal",
                           "accepted", "failed"}]
    BY <1>0 DEF AfterSent, TypeOK
  <2> QED
    BY <2>1, <2>2, <2>3, <2>4, <2>5 DEF Send, TypeOK
<1>a. /\ pub[m] = "send" /\ \A k \in Msgs \ {m} : pub'[k] = pub[k]
      /\ UNCHANGED <<lease, dialer, landed, step, by, owner, cur>>
  BY <1>0 DEF Send, TypeOK
<1>2. Owned'
  <2>1. \A k \in Msgs : pub[k] \in {"dial", "flush"} => pub'[k] = pub[k]
    BY <1>a
  <2> QED
    BY <2>1, <1>a, OwnedFrame
<1>3. Leased'
  BY <1>a DEF Leased
<1>4. Fresh'
  BY ConstantsAssumption DEF Send, Apply, Fresh, Early, TypeOK
<1>5. Kept'
  BY ConstantsAssumption DEF AfterSent, Send, Apply, Kept, Taken, TypeOK
<1>6. Single'
  BY ConstantsAssumption DEF AfterSent, Send, Apply, Single, Early, TypeOK, Leased, Fresh
<1> QED
  BY <1>1, <1>2, <1>3, <1>4, <1>5, <1>6

LEMMA CacheMessageInv ==
    ASSUME Inv, NEW m \in Msgs, CacheMessage(m) PROVE Inv'
<1> USE DEF Inv, store, world, conn, loops, flush, calls, budget, past
<1>1. TypeOK'
  <2>1. cached' \in SUBSET Msgs
    BY DEF CacheMessage, TypeOK
  <2>2. pub' \in [Msgs -> {"new", "dial", "flush", "send", "cache", "park", "signal",
                          "accepted", "failed"}]
    BY DEF CacheMessage, TypeOK
  <2> QED
    BY <2>1, <2>2 DEF CacheMessage, TypeOK
<1>2. Owned'
  <2>1. \A k \in Msgs : pub[k] \in {"dial", "flush"} => pub'[k] = pub[k]
    BY DEF CacheMessage, TypeOK
  <2> QED
    BY <2>1, OwnedFrame DEF CacheMessage
<1>3. Leased'
  BY ConstantsAssumption DEF CacheMessage, Leased, TypeOK
<1>4. Fresh'
  BY ConstantsAssumption DEF CacheMessage, Fresh, Early, TypeOK
<1>5. Kept'
  BY ConstantsAssumption DEF CacheMessage, Kept, Taken, TypeOK
<1>6. Single'
  <2>1. \A k \in Msgs : k \notin doubt /\ copies[k] > 0 => k # m
    BY DEF CacheMessage, Single, Early
  <2>2. /\ UNCHANGED <<doubt, copies, step, cur>>
        /\ \A k \in Msgs \ {m} : pub'[k] = pub[k] /\ (k \in cached' => k \in cached)
    BY DEF CacheMessage, TypeOK
  <2>3. \A k \in Msgs : k \notin doubt /\ copies[k] > 0 =>
            (Early(k)' => Early(k)) /\ (k \in cached' => k \in cached)
    BY <2>1, <2>2 DEF Early
  <2> QED
    BY <2>2, <2>3 DEF Single
<1> QED
  BY <1>1, <1>2, <1>3, <1>4, <1>5, <1>6

LEMMA SignalPendingInv ==
    ASSUME Inv, NEW m \in Msgs, SignalPending(m) PROVE Inv'
<1> USE DEF Inv, store, world, conn, loops, flush, calls, budget, past
<1>1. TypeOK'
  BY ConstantsAssumption DEF SignalPending, TypeOK, Owners
<1>2. Owned'
  <2>1. \A k \in Msgs : pub[k] \in {"dial", "flush"} => pub'[k] = pub[k]
    BY DEF SignalPending, TypeOK
  <2> QED
    BY <2>1, OwnedFrame DEF SignalPending
<1>3. Leased'
  BY ConstantsAssumption DEF SignalPending, Leased, TypeOK
<1>4. Fresh'
  BY ConstantsAssumption DEF SignalPending, Fresh, Early, TypeOK
<1>5. Kept'
  BY ConstantsAssumption DEF SignalPending, Kept, Taken, TypeOK
<1>6. Single'
  <2>1. \A k \in Msgs : Early(k)' => Early(k)
    BY DEF SignalPending, Early, TypeOK
  <2>2. UNCHANGED <<copies, doubt, cached, step, cur>>
    BY DEF SignalPending
  <2> QED
    BY <2>1, <2>2, SingleFrame
<1> QED
  BY <1>1, <1>2, <1>3, <1>4, <1>5, <1>6

LEMMA LeaseExpiresInv ==
    ASSUME Inv, NEW m \in Msgs, LeaseExpires(m) PROVE Inv'
<1> USE DEF Inv, store, world, conn, loops, flush, calls, budget, past
<1>1. TypeOK'
  BY ConstantsAssumption DEF LeaseExpires, Working, TypeOK, Owners
<1>2. Owned'
  BY ConstantsAssumption DEF LeaseExpires, Working, Owned, TypeOK, Owners
<1>3. Leased'
  BY ConstantsAssumption DEF LeaseExpires, Working, Leased, TypeOK
<1>4. Fresh'
  BY ConstantsAssumption DEF LeaseExpires, Working, Fresh, Early, TypeOK
<1>5. Kept'
  BY ConstantsAssumption DEF LeaseExpires, Working, Kept, Taken, TypeOK
<1>6. Single'
  BY ConstantsAssumption DEF LeaseExpires, Working, Single, Early, TypeOK, Leased, Fresh
<1> QED
  BY <1>1, <1>2, <1>3, <1>4, <1>5, <1>6

LEMMA CancelInv ==
    ASSUME Inv, NEW m \in Msgs, Cancel(m) PROVE Inv'
<1> USE DEF Inv, store, world, conn, loops, flush, calls, budget, past
<1>1. TypeOK'
  BY ConstantsAssumption DEF Cancel, TypeOK, Owners
<1>2. Owned'
  BY ConstantsAssumption DEF Cancel, Owned, TypeOK, Owners
<1>3. Leased'
  BY ConstantsAssumption DEF Cancel, Leased, TypeOK
<1>4. Fresh'
  BY ConstantsAssumption DEF Cancel, Fresh, Early, TypeOK
<1>5. Kept'
  BY ConstantsAssumption DEF Cancel, Kept, Taken, TypeOK
<1>6. Single'
  BY ConstantsAssumption DEF Cancel, Single, Early, TypeOK, Leased, Fresh
<1> QED
  BY <1>1, <1>2, <1>3, <1>4, <1>5, <1>6

LEMMA EntryExpiresInv ==
    ASSUME Inv, NEW m \in Msgs, EntryExpires(m) PROVE Inv'
<1> USE DEF Inv, store, world, conn, loops, flush, calls, budget, past
<1>1. TypeOK'
  BY ConstantsAssumption DEF EntryExpires, TypeOK, Owners
<1>2. Owned'
  BY ConstantsAssumption DEF EntryExpires, Owned, TypeOK, Owners
<1>3. Leased'
  BY ConstantsAssumption DEF EntryExpires, Leased, TypeOK
<1>4. Fresh'
  BY ConstantsAssumption DEF EntryExpires, Fresh, Early, TypeOK
<1>5. Kept'
  BY ConstantsAssumption DEF EntryExpires, Kept, Taken, TypeOK
<1>6. Single'
  BY ConstantsAssumption DEF EntryExpires, Single, Early, TypeOK, Leased, Fresh
<1> QED
  BY <1>1, <1>2, <1>3, <1>4, <1>5, <1>6

LEMMA RebindsInv ==
    ASSUME Inv, NEW m \in Msgs, Rebinds(m) PROVE Inv'
<1> USE DEF Inv, store, world, conn, loops, flush, calls, budget, past
<1>1. TypeOK'
  BY ConstantsAssumption DEF Rebinds, TypeOK, Owners
<1>2. Owned'
  BY ConstantsAssumption DEF Rebinds, Owned, TypeOK, Owners
<1>3. Leased'
  BY ConstantsAssumption DEF Rebinds, Leased, TypeOK
<1>4. Fresh'
  BY ConstantsAssumption DEF Rebinds, Fresh, Early, TypeOK
<1>5. Kept'
  BY ConstantsAssumption DEF Rebinds, Kept, Taken, TypeOK
<1>6. Single'
  BY ConstantsAssumption DEF Rebinds, Single, Early, TypeOK, Leased, Fresh
<1> QED
  BY <1>1, <1>2, <1>3, <1>4, <1>5, <1>6

LEMMA BrokerStartsInv ==
    ASSUME Inv, BrokerStarts PROVE Inv'
<1> USE DEF Inv, store, world, conn, loops, flush, calls, budget, past
<1>1. TypeOK'
  BY ConstantsAssumption DEF BrokerStarts, TypeOK, Owners
<1>2. Owned'
  BY ConstantsAssumption DEF BrokerStarts, Owned, TypeOK, Owners
<1>3. Leased'
  BY ConstantsAssumption DEF BrokerStarts, Leased, TypeOK
<1>4. Fresh'
  BY ConstantsAssumption DEF BrokerStarts, Fresh, Early, TypeOK
<1>5. Kept'
  BY ConstantsAssumption DEF BrokerStarts, Kept, Taken, TypeOK
<1>6. Single'
  BY ConstantsAssumption DEF BrokerStarts, Single, Early, TypeOK, Leased, Fresh
<1> QED
  BY <1>1, <1>2, <1>3, <1>4, <1>5, <1>6

LEMMA BrokerStopsInv ==
    ASSUME Inv, BrokerStops PROVE Inv'
<1> USE DEF Inv, store, world, conn, loops, flush, calls, budget, past
<1>1. TypeOK'
  <2>1. link' \in [Replicas -> BOOLEAN] /\ up' \in BOOLEAN
    BY DEF BrokerStops, TypeOK
  <2>2. outages' \in Nat
    BY DEF BrokerStops, TypeOK
  <2> QED
    BY <2>1, <2>2 DEF BrokerStops, TypeOK
<1>2. Owned'
  BY ConstantsAssumption DEF BrokerStops, Owned, TypeOK, Owners
<1>3. Leased'
  BY ConstantsAssumption DEF BrokerStops, Leased, TypeOK
<1>4. Fresh'
  BY ConstantsAssumption DEF BrokerStops, Fresh, Early, TypeOK
<1>5. Kept'
  BY ConstantsAssumption DEF BrokerStops, Kept, Taken, TypeOK
<1>6. Single'
  BY ConstantsAssumption DEF BrokerStops, Single, Early, TypeOK, Leased, Fresh
<1> QED
  BY <1>1, <1>2, <1>3, <1>4, <1>5, <1>6
-----------------------------------------------------------------------------

LEMMA NextInv == Inv /\ [Next]_vars => Inv'
<1> SUFFICES ASSUME Inv, [Next]_vars PROVE Inv'
  OBVIOUS
<1>1. ASSUME NEW r \in Replicas, FlushStep(r) PROVE Inv'
  BY <1>1, ListKeysInv, ReserveInv, ReadInv, PublishCachedInv, DeleteCachedInv,
     ReleaseInv, EndFlushInv
  DEF FlushStep
<1>2. ASSUME NEW r \in Replicas, ReplicaStep(r) PROVE Inv'
  BY <1>1, <1>2, MonitorDialsInv, DialLandsInv, DialFailsInv, ReconnectFlushesInv,
     DelayedFlushesInv, DelayedDroppedInv, LoopWakesInv, LoopFiresInv
  DEF ReplicaStep, DialStep, DelayedStep
<1>3. ASSUME NEW m \in Msgs, MsgStep(m) PROVE Inv'
  BY <1>3, PublishInv, SendInv, CacheMessageInv, SignalPendingInv, LeaseExpiresInv
  DEF MsgStep, CallStep
<1>4. CASE Environment
  BY <1>4, BrokerStartsInv, BrokerStopsInv, CancelInv, EntryExpiresInv, RebindsInv,
     LinkDropsInv, CloseInv, CrashInv, RestartInv
  DEF Environment
<1>5. CASE UNCHANGED vars
  <2> USE <1>5 DEF vars, Inv, store, world, conn, loops, flush, calls, budget, past
  <2>1. TypeOK'
    BY DEF TypeOK
  <2>2. Owned'
    BY DEF Owned
  <2>3. Leased'
    BY DEF Leased
  <2>4. Fresh' /\ Kept'
    BY DEF Fresh, Early, Kept, Taken
  <2>5. Single'
    BY DEF Single, Early
  <2> QED
    BY <2>1, <2>2, <2>3, <2>4, <2>5
<1> QED
  BY <1>2, <1>3, <1>4, <1>5 DEF Next

LEMMA Invariant == Spec => []Inv
BY InitInv, NextInv, PTL DEF Spec

\* The state of the offline path always has its type (rabbitmq/common.go,
\* rabbitmq/publisher.go), for any number of replicas and messages.
THEOREM TypeCorrect == Spec => []TypeOK
BY Invariant, PTL DEF Inv

\* No two replicas are in the loop body of flushCachedMessages for one message at
\* once (rabbitmq/lease.go:33-35).
THEOREM Exclusive == Spec => []FlushExclusive
<1>1. Inv => FlushExclusive
  BY DEF Inv, Leased, FlushExclusive, Working
<1> QED
  BY <1>1, Invariant, PTL

\* A message whose Publish returned nil is on a queue or in the cache
\* (rabbitmq/publisher.go:100-141), save for the two cases NoAcceptedLoss names.
THEOREM AcceptedIsKept == Spec => []NoAcceptedLoss
<1>1. Inv => NoAcceptedLoss
  BY DEF Inv, Kept, Taken, NoAcceptedLoss
<1> QED
  BY <1>1, Invariant, PTL

\* The broker gets a second copy of a message only where its client could not
\* know, or not record, that it had the first (rabbitmq/common.go:99-118).
THEOREM DuplicatesAreInDoubt == Spec => []DuplicateOnlyInDoubt
<1>1. Inv => DuplicateOnlyInDoubt
  BY DEF Inv, TypeOK, Single, DuplicateOnlyInDoubt
<1> QED
  BY <1>1, Invariant, PTL
-----------------------------------------------------------------------------
(* Nobody waits for nothing                                                *)

\* Replica r is in a flush that k began for o.
Flushes(r, k, o) == step[r] # "off" /\ by[r] = k /\ owner[r] = o

\* A call that waits for its dial, or for the flush after it, has one.
CallAwaited(m) ==
    /\ pub[m] = "dial" => dialer[Home[m]] = m
    /\ pub[m] = "flush" => m \in landed[Home[m]] \/ Flushes(Home[m], "reconnect", m)

\* So has the retry loop its flush, and a Connect that has not returned its dial or the
\* flush after it.
ReplicaAwaited(r) ==
    /\ loop[r] = "flushing" => Flushes(r, "retry", Background)
    /\ status[r] = "starting" => BackgroundBusy(r)
    /\ status[r] = "dead" => dialer[r] = Nobody

Awaited ==
    /\ \A m \in Msgs : CallAwaited(m)
    /\ \A r \in Replicas : ReplicaAwaited(r)

\* The steps that end no dial and no flush, and let nobody wait.
LEMMA AwaitedFrame ==
    ASSUME Awaited, UNCHANGED <<dialer, landed, by, owner, status>>,
           \A r \in Replicas : /\ step[r] # "off" => step'[r] # "off"
                               /\ loop'[r] = "flushing" => loop[r] = "flushing",
           \A m \in Msgs : pub'[m] \in {"dial", "flush"} => pub'[m] = pub[m]
    PROVE  Awaited'
<1>1. \A m \in Msgs : Home[m] \in Replicas
    BY ConstantsAssumption
<1>2. ASSUME NEW m \in Msgs PROVE CallAwaited(m)'
    BY <1>1 DEF Awaited, CallAwaited, Flushes
<1>3. ASSUME NEW r \in Replicas PROVE ReplicaAwaited(r)'
    BY DEF Awaited, ReplicaAwaited, Flushes, BackgroundBusy
<1> QED
    BY <1>2, <1>3 DEF Awaited

\* A flush that ends lets go whoever began it.
LEMMA AwaitedOver ==
    ASSUME Inv, Awaited, NEW r \in Replicas, NEW n, step[r] # "off",
           FlushOver(r), Resume(r, by[r], owner[r], n), UNCHANGED <<dialer, landed>>
    PROVE  Awaited'
<1>1. /\ step' = [step EXCEPT ![r] = "off"] /\ by' = [by EXCEPT ![r] = "reconnect"]
      /\ owner' = [owner EXCEPT ![r] = Background]
    BY DEF FlushOver
<1>2. \A q \in Replicas : q # r => /\ step'[q] = step[q] /\ by'[q] = by[q] /\ owner'[q] = owner[q]
                                   /\ loop'[q] = loop[q] /\ status'[q] = status[q]
    BY <1>1 DEF Inv, TypeOK, Resume, Started
<1>3. ASSUME NEW m \in Msgs PROVE CallAwaited(m)'
  <2>1. CallAwaited(m) /\ Home[m] \in Replicas
      BY ConstantsAssumption DEF Awaited
  <2>2. pub'[m] = pub[m] \/ pub'[m] = "send"
      BY DEF Inv, TypeOK, Resume
  <2>3. by[r] = "reconnect" /\ owner[r] = m => pub'[m] = "send"
      BY DEF Inv, TypeOK, Resume
  <2>4. CASE Home[m] = r
      BY <2>1, <2>2, <2>3, <2>4 DEF CallAwaited, Flushes
  <2>5. CASE Home[m] # r
      BY <1>2, <2>1, <2>2, <2>5 DEF CallAwaited, Flushes
  <2> QED
      BY <2>4, <2>5
<1>4. ReplicaAwaited(r)'
  <2>1. ReplicaAwaited(r)
      BY DEF Awaited
  <2>2. loop'[r] # "flushing"
    <3>1. CASE by[r] = "retry"
        BY <3>1 DEF Inv, TypeOK, Resume
    <3>2. CASE by[r] # "retry"
        BY <2>1, <3>2 DEF ReplicaAwaited, Flushes, Resume
    <3> QED
        BY <3>1, <3>2
  <2>3. status'[r] = status[r] \/ status'[r] = "running"
      BY DEF Inv, TypeOK, Resume, Started
  <2>4. by[r] = "reconnect" /\ owner[r] = Background => status'[r] # "starting"
      BY DEF Inv, TypeOK, Resume, Started
  <2> QED
      BY <2>1, <2>2, <2>3, <2>4 DEF ReplicaAwaited, BackgroundBusy
<1>5. ASSUME NEW q \in Replicas, q # r PROVE ReplicaAwaited(q)'
    BY <1>2, <1>5 DEF Awaited, ReplicaAwaited, Flushes, BackgroundBusy
<1> QED
    BY <1>3, <1>4, <1>5 DEF Awaited

\* Who comes back from a dial flushes, or goes on at once.
LEMMA AwaitedReconnect ==
    ASSUME Inv, Awaited, NEW r \in Replicas, NEW o \in Owners, ReconnectFlushes(r, o)
    PROVE  Awaited'
<1> USE DEF Inv
<1>1. /\ landed' = [landed EXCEPT ![r] = @ \ {o}] /\ dialer' = dialer
      /\ \A q \in Replicas : q # r => landed'[q] = landed[q]
    BY DEF ReconnectFlushes, TypeOK
<1>2. CASE link[r] /\ step[r] = "off"
  <2>1. /\ step' = [step EXCEPT ![r] = "keys"] /\ by' = [by EXCEPT ![r] = "reconnect"]
        /\ owner' = [owner EXCEPT ![r] = o] /\ UNCHANGED <<loop, pub, status>>
      BY <1>2 DEF ReconnectFlushes, BeginFlush
  <2>2. ASSUME NEW m \in Msgs PROVE CallAwaited(m)'
    <3>1. CallAwaited(m) /\ Home[m] \in Replicas
        BY ConstantsAssumption DEF Awaited
    <3> QED
        BY <1>1, <1>2, <2>1, <3>1 DEF CallAwaited, Flushes, TypeOK
  <2>3. ASSUME NEW q \in Replicas PROVE ReplicaAwaited(q)'
    <3>1. ReplicaAwaited(q)
        BY DEF Awaited
    <3> QED
        BY <1>1, <1>2, <2>1, <3>1 DEF ReplicaAwaited, Flushes, BackgroundBusy, TypeOK
  <2> QED
      BY <2>2, <2>3 DEF Awaited
<1>3. CASE ~link[r] \/ step[r] # "off"
  <2>1. Resume(r, "reconnect", o, 0) /\ UNCHANGED <<step, by, owner>>
      BY <1>3 DEF ReconnectFlushes, BeginFlush
  <2>2. ASSUME NEW m \in Msgs PROVE CallAwaited(m)'
    <3>1. CallAwaited(m) /\ Home[m] \in Replicas
        BY ConstantsAssumption DEF Awaited
    <3>2. pub'[m] = IF m = o THEN "send" ELSE pub[m]
        BY <2>1, ConstantsAssumption DEF Resume, TypeOK
    <3> QED
        BY <1>1, <2>1, <3>1, <3>2 DEF CallAwaited, Flushes, TypeOK
  <2>3. ASSUME NEW q \in Replicas PROVE ReplicaAwaited(q)'
    <3>1. ReplicaAwaited(q)
        BY DEF Awaited
    <3>2. /\ loop' = loop /\ (status'[q] = status[q] \/ status'[q] = "running")
          /\ q = r /\ o = Background => status'[q] # "starting"
        BY <2>1 DEF Resume, Started, TypeOK
    <3> QED
        BY <1>1, <2>1, <3>1, <3>2 DEF ReplicaAwaited, Flushes, BackgroundBusy, TypeOK
  <2> QED
      BY <2>2, <2>3 DEF Awaited
<1> QED
    BY <1>2, <1>3

\* The timer of the retry loop fires.
LEMMA AwaitedRetry ==
    ASSUME Inv, Awaited, NEW r \in Replicas, LoopFires(r)
    PROVE  Awaited'
<1> USE DEF Inv
<1>1. CASE link[r] /\ step[r] = "off"
  <2>1. /\ step' = [step EXCEPT ![r] = "keys"] /\ by' = [by EXCEPT ![r] = "retry"]
        /\ owner' = [owner EXCEPT ![r] = Background] /\ loop' = [loop EXCEPT ![r] = "flushing"]
        /\ UNCHANGED <<pub, status, dialer, landed>>
      BY <1>1 DEF LoopFires, BeginFlush
  <2>2. ASSUME NEW m \in Msgs PROVE CallAwaited(m)'
    <3>1. CallAwaited(m) /\ Home[m] \in Replicas
        BY ConstantsAssumption DEF Awaited
    <3> QED
        BY <1>1, <2>1, <3>1 DEF CallAwaited, Flushes, TypeOK
  <2>3. ASSUME NEW q \in Replicas PROVE ReplicaAwaited(q)'
    <3>1. ReplicaAwaited(q)
        BY DEF Awaited
    <3> QED
        BY <1>1, <2>1, <3>1 DEF ReplicaAwaited, Flushes, BackgroundBusy, TypeOK
  <2> QED
      BY <2>2, <2>3 DEF Awaited
<1>2. CASE ~link[r] \/ step[r] # "off"
  <2>1. Resume(r, "retry", Background, 0) /\ UNCHANGED <<step, by, owner, dialer, landed>>
      BY <1>2 DEF LoopFires, BeginFlush
  <2>2. UNCHANGED <<pub, status>> /\ loop' = [loop EXCEPT ![r] = "idle"]
      BY <2>1 DEF Resume
  <2> QED
      BY <2>1, <2>2, AwaitedFrame DEF TypeOK
<1> QED
    BY <1>1, <1>2

\* A delayed flush, which nobody waits for.
LEMMA AwaitedDelayed ==
    ASSUME Inv, Awaited, NEW r \in Replicas, NEW o \in Owners, DelayedFlushes(r, o)
    PROVE  Awaited'
<1> USE DEF Inv
<1>1. UNCHANGED <<pub, status, dialer, landed, loop>>
    BY DEF DelayedFlushes, conn, calls
<1>2. CASE step[r] = "off"
  <2>1. \A q \in Replicas :
            \/ step'[q] = step[q] /\ by'[q] = by[q] /\ owner'[q] = owner[q]
            \/ step[q] = "off"
      BY <1>2 DEF DelayedFlushes, TypeOK
  <2>2. ASSUME NEW m \in Msgs PROVE CallAwaited(m)'
    <3>1. CallAwaited(m) /\ Home[m] \in Replicas
        BY ConstantsAssumption DEF Awaited
    <3> QED
        BY <1>1, <2>1, <3>1 DEF CallAwaited, Flushes
  <2>3. ASSUME NEW q \in Replicas PROVE ReplicaAwaited(q)'
    <3>1. ReplicaAwaited(q)
        BY DEF Awaited
    <3> QED
        BY <1>1, <2>1, <3>1 DEF ReplicaAwaited, Flushes, BackgroundBusy
  <2> QED
      BY <2>2, <2>3 DEF Awaited
<1>3. CASE step[r] # "off"
  <2>1. UNCHANGED <<step, by, owner>>
      BY <1>3 DEF DelayedFlushes
  <2> QED
      BY <1>1, <2>1, AwaitedFrame
<1> QED
    BY <1>2, <1>3

\* A dial begins while there is none, for a call of Publish or for Connect and the monitor.
DialBegins(r, o) ==
    /\ dialer[r] = Nobody /\ dialer' = [dialer EXCEPT ![r] = o]
    /\ \/ status' = status /\ status[r] # "dead"
       \/ o = Background /\ status' = [status EXCEPT ![r] = "starting"]
    /\ \A m \in Msgs : \/ pub'[m] \in {"dial", "flush"} => pub'[m] = pub[m]
                       \/ Home[m] = r /\ o = m /\ pub'[m] = "dial"
    /\ UNCHANGED <<landed, step, by, owner, loop>>

LEMMA AwaitedDials ==
    ASSUME Inv, Awaited, NEW r \in Replicas, NEW o \in Owners, DialBegins(r, o)
    PROVE  Awaited'
<1> USE DEF Inv, DialBegins
<1>1. \A m \in Msgs : m # Nobody
    BY ConstantsAssumption
<1>2. ASSUME NEW m \in Msgs PROVE CallAwaited(m)'
  <2>1. CallAwaited(m) /\ Home[m] \in Replicas
      BY ConstantsAssumption DEF Awaited
  <2> QED
      BY <1>1, <2>1 DEF CallAwaited, Flushes, TypeOK
<1>3. ASSUME NEW q \in Replicas PROVE ReplicaAwaited(q)'
  <2>1. ReplicaAwaited(q)
      BY DEF Awaited
  <2>2. dialer'[q] = IF q = r THEN o ELSE dialer[q]
      BY DEF TypeOK
  <2>3. q # r => status'[q] = status[q]
      BY DEF TypeOK
  <2>4. q = r => status'[q] # "dead" /\ (status'[q] = "starting" => status[q] = "starting" \/ o = Background)
      BY DEF TypeOK
  <2>5. dialer[q] = Background => q # r
      BY ConstantsAssumption
  <2> QED
      BY <2>1, <2>2, <2>3, <2>4, <2>5 DEF ReplicaAwaited, Flushes, BackgroundBusy
<1> QED
    BY <1>2, <1>3 DEF Awaited

\* A dial lands or fails, and its owner goes on.
LEMMA AwaitedDial ==
    ASSUME Inv, Awaited, NEW r \in Replicas, DialStep(r)
    PROVE  Awaited'
<1> USE DEF Inv
<1>1. /\ dialer[r] # Nobody /\ dialer' = [dialer EXCEPT ![r] = Nobody]
      /\ UNCHANGED <<step, by, owner, loop>>
    BY DEF DialStep, DialLands, DialFails, loops, flush
<1>2. \A q \in Replicas : /\ landed[q] \subseteq landed'[q]
                          /\ q # r => dialer'[q] = dialer[q] /\ status'[q] = status[q]
    BY DEF DialStep, DialLands, DialFails, Started, TypeOK
<1>3. ASSUME NEW m \in Msgs PROVE CallAwaited(m)'
  <2>1. CallAwaited(m) /\ Home[m] \in Replicas
      BY ConstantsAssumption DEF Awaited
  <2>2. CASE m = dialer[r]
    <3>1. Home[m] = r
        BY <2>2 DEF Owned
    <3>2. \/ pub'[m] = "flush" /\ m \in landed'[r]
          \/ pub'[m] \notin {"dial", "flush"}
        BY <2>2 DEF DialStep, DialLands, DialFails, TypeOK
    <3> QED
        BY <3>1, <3>2 DEF CallAwaited
  <2>3. CASE m # dialer[r]
    <3>1. pub'[m] = pub[m]
        BY <2>3 DEF DialStep, DialLands, DialFails, TypeOK
    <3>2. pub[m] = "dial" => Home[m] # r
        BY <2>1, <2>3 DEF CallAwaited
    <3> QED
        BY <1>1, <1>2, <2>1, <3>1, <3>2 DEF CallAwaited, Flushes
  <2> QED
      BY <2>2, <2>3
<1>4. ReplicaAwaited(r)'
  <2>1. ReplicaAwaited(r)
      BY DEF Awaited
  <2>2. dialer'[r] = Nobody
      BY <1>1 DEF TypeOK
  <2>3. \/ status' = status /\ dialer[r] \in landed'[r]
        \/ status'[r] # "starting"
        \/ status' = status /\ dialer[r] # Background
      BY DEF DialStep, DialLands, DialFails, Started, TypeOK
  <2> QED
      BY <1>1, <1>2, <2>1, <2>2, <2>3 DEF ReplicaAwaited, Flushes, BackgroundBusy
<1>5. ASSUME NEW q \in Replicas, q # r PROVE ReplicaAwaited(q)'
    BY <1>1, <1>2, <1>5 DEF Awaited, ReplicaAwaited, Flushes, BackgroundBusy
<1> QED
    BY <1>3, <1>4, <1>5 DEF Awaited

\* A process that dies takes its calls, its dial and its flush with it.
LEMMA AwaitedCrash ==
    ASSUME Inv, Awaited, NEW r \in Replicas, Crash(r)
    PROVE  Awaited'
<1> USE DEF Inv
<1>1. \A q \in Replicas : q # r => /\ step'[q] = step[q] /\ by'[q] = by[q] /\ owner'[q] = owner[q]
                                   /\ loop'[q] = loop[q] /\ status'[q] = status[q]
                                   /\ dialer'[q] = dialer[q] /\ landed'[q] = landed[q]
    BY DEF Crash, FlushOver, TypeOK
<1>2. ASSUME NEW m \in Msgs PROVE CallAwaited(m)'
  <2>1. CallAwaited(m) /\ Home[m] \in Replicas
      BY ConstantsAssumption DEF Awaited
  <2>2. CASE Home[m] = r
    <3>1. pub'[m] \notin {"dial", "flush"}
        BY <2>2 DEF Crash, TypeOK
    <3> QED
        BY <3>1 DEF CallAwaited
  <2>3. CASE Home[m] # r
    <3>1. pub'[m] = pub[m]
        BY <2>3 DEF Crash, TypeOK
    <3> QED
        BY <1>1, <2>1, <2>3, <3>1 DEF CallAwaited, Flushes
  <2> QED
      BY <2>2, <2>3
<1>3. ReplicaAwaited(r)'
  <2>1. loop'[r] = "idle" /\ status'[r] = "dead" /\ dialer'[r] = Nobody
      BY DEF Crash, TypeOK
  <2> QED
      BY <2>1 DEF ReplicaAwaited
<1>4. ASSUME NEW q \in Replicas, q # r PROVE ReplicaAwaited(q)'
    BY <1>1, <1>4 DEF Awaited, ReplicaAwaited, Flushes, BackgroundBusy
<1> QED
    BY <1>2, <1>3, <1>4 DEF Awaited

\* Every step leaves whoever waits with somebody to wait for.
LEMMA AwaitedStep == Inv /\ Awaited /\ [Next]_vars => Awaited'
<1> SUFFICES ASSUME Inv, Awaited, [Next]_vars PROVE Awaited'
    OBVIOUS
<1> USE DEF store, world, conn, loops, flush, calls, budget, past
<1>1. ASSUME NEW r \in Replicas, ListKeys(r) \/ EndFlush(r) PROVE Awaited'
  <2>1. CASE FlushOver(r)
    <3>1. \E n : Resume(r, by[r], owner[r], n)
      <4>1. CASE EndFlush(r)
          BY <4>1 DEF EndFlush
      <4>2. CASE ListKeys(r) /\ ~Resume(r, by[r], owner[r], 0)
        <5>1. step' = [step EXCEPT ![r] = "next"]
            BY <4>2 DEF ListKeys
        <5>2. step' = [step EXCEPT ![r] = "off"]
            BY <2>1 DEF FlushOver
        <5> QED
            BY <5>1, <5>2 DEF Inv, TypeOK
      <4> QED
          BY <1>1, <4>1, <4>2
    <3>2. step[r] # "off" /\ UNCHANGED <<dialer, landed>>
        BY <1>1 DEF ListKeys, EndFlush
    <3> QED
        BY <2>1, <3>1, <3>2, AwaitedOver
  <2>2. CASE ~FlushOver(r)
    <3>1. /\ step' = [step EXCEPT ![r] = "next"]
          /\ UNCHANGED <<dialer, landed, by, owner, status, loop, pub>>
        BY <1>1, <2>2 DEF ListKeys, EndFlush
    <3> QED
        BY <3>1, AwaitedFrame DEF Inv, TypeOK
  <2> QED
      BY <2>1, <2>2
<1>2. ASSUME NEW r \in Replicas,
             Reserve(r) \/ Read(r) \/ PublishCached(r) \/ DeleteCached(r) \/ Release(r)
      PROVE  Awaited'
  <2>1. /\ step' = step \/ \E to \in {"read", "next", "publish", "delete", "unroutable", "failed", "end"} :
                              step' = [step EXCEPT ![r] = to]
        /\ UNCHANGED <<dialer, landed, by, owner, status, loop, pub>>
      BY <1>2 DEF Reserve, reserveCachedMessage, Read, PublishCached, AfterFlushed,
                  DeleteCached, Release
  <2> QED
      BY <2>1, AwaitedFrame DEF Inv, TypeOK
<1>3. ASSUME NEW r \in Replicas, MonitorDials(r) PROVE Awaited'
  <2>1. DialBegins(r, Background) /\ Background \in Owners
      BY <1>3 DEF MonitorDials, DialBegins, Owners
  <2> QED
      BY <2>1, AwaitedDials, Zenon
<1>4. ASSUME NEW r \in Replicas, LoopWakes(r) PROVE Awaited'
  <2>1. /\ loop' = [loop EXCEPT ![r] = "waiting"]
        /\ UNCHANGED <<dialer, landed, by, owner, status, step, pub>>
      BY <1>4 DEF LoopWakes
  <2> QED
      BY <2>1, AwaitedFrame DEF Inv, TypeOK
<1>5. ASSUME NEW m \in Msgs, Publish(m) PROVE Awaited'
  <2> DEFINE r == Home[m]
  <2>1. r \in Replicas /\ m \in Owners
      BY ConstantsAssumption DEF Owners
  <2>2. CASE /\ \E to \in {"send", "failed", "cache"} : pub' = [pub EXCEPT ![m] = to]
             /\ UNCHANGED <<dialer, landed, by, owner, status, step, loop>>
      BY <2>2, AwaitedFrame DEF Inv, TypeOK
  <2>3. CASE /\ dialer[r] = Nobody /\ dialer' = [dialer EXCEPT ![r] = m]
             /\ pub' = [pub EXCEPT ![m] = "dial"] /\ status[r] = "running"
             /\ UNCHANGED <<landed, step, by, owner, loop, status>>
    <3>1. \A k \in Msgs : pub'[k] = pub[k] \/ (k = m /\ pub'[k] = "dial")
        BY <2>3 DEF Inv, TypeOK
    <3>2. DialBegins(r, m)
        BY <2>3, <3>1 DEF DialBegins
    <3> QED
        BY <2>1, <3>2, AwaitedDials, Zenon
  <2> QED
      BY <1>5, <2>2, <2>3 DEF Publish
<1>6. ASSUME NEW m \in Msgs, CallStep(m) PROVE Awaited'
  <2>1. /\ \E to \in {"accepted", "park", "cache", "signal", "failed"} : pub' = [pub EXCEPT ![m] = to]
        /\ UNCHANGED <<dialer, landed, by, owner, status, step, loop>>
      BY <1>6 DEF CallStep, Send, AfterSent, CacheMessage, SignalPending
  <2> QED
      BY <2>1, AwaitedFrame DEF Inv, TypeOK
<1>7. ASSUME NEW r \in Replicas, Close(r) PROVE Awaited'
  <2>1. /\ status' = [status EXCEPT ![r] = "closed"]
        /\ UNCHANGED <<dialer, landed, by, owner, step, loop, pub>>
      BY <1>7 DEF Close
  <2>2. \A q \in Replicas : ReplicaAwaited(q)'
      BY <2>1 DEF Inv, TypeOK, Awaited, ReplicaAwaited, Flushes, BackgroundBusy
  <2>3. \A m \in Msgs : CallAwaited(m)'
      BY <2>1 DEF Awaited, CallAwaited, Flushes
  <2> QED
      BY <2>2, <2>3 DEF Awaited
<1>8. ASSUME NEW r \in Replicas, Restart(r) PROVE Awaited'
  <2>1. dialer[r] = Nobody
      BY <1>8 DEF Restart, Awaited, ReplicaAwaited
  <2>2. DialBegins(r, Background) /\ Background \in Owners
      BY <1>8, <2>1 DEF Restart, DialBegins, Owners
  <2> QED
      BY <2>2, AwaitedDials, Zenon
<1>9. CASE UNCHANGED <<dialer, landed, by, owner, status, step, loop, pub>>
    BY <1>9, AwaitedFrame
<1>10. ASSUME NEW r \in Replicas, ReplicaStep(r) PROVE Awaited'
  <2>1. CASE FlushStep(r)
      BY <1>1, <1>2, <2>1 DEF FlushStep
  <2>2. ASSUME NEW o \in Owners, ReconnectFlushes(r, o) \/ DelayedFlushes(r, o) PROVE Awaited'
      BY <2>2, AwaitedReconnect, AwaitedDelayed
  <2>3. ASSUME NEW o \in Owners, DelayedDropped(r, o) PROVE Awaited'
      BY <1>9, <2>3 DEF DelayedDropped
  <2> QED
      BY <1>3, <1>4, <1>10, <2>1, <2>2, <2>3, AwaitedDial, AwaitedRetry
      DEF ReplicaStep, DelayedStep
<1>11. CASE Environment
  <2>1. ASSUME NEW m \in Msgs, Cancel(m) \/ EntryExpires(m) \/ Rebinds(m) PROVE Awaited'
      BY <1>9, <2>1 DEF Cancel, EntryExpires, Rebinds
  <2>2. ASSUME NEW r \in Replicas, LinkDrops(r) PROVE Awaited'
      BY <1>9, <2>2 DEF LinkDrops
  <2>3. CASE BrokerStarts \/ BrokerStops
      BY <1>9, <2>3 DEF BrokerStarts, BrokerStops
  <2> QED
      BY <1>7, <1>8, <1>11, <2>1, <2>2, <2>3, AwaitedCrash DEF Environment
<1>12. ASSUME NEW m \in Msgs, MsgStep(m) PROVE Awaited'
  <2>1. CASE LeaseExpires(m)
      BY <1>9, <2>1 DEF LeaseExpires
  <2> QED
      BY <1>5, <1>6, <1>12, <2>1 DEF MsgStep
<1>13. CASE UNCHANGED vars
    BY <1>9, <1>13 DEF vars
<1> QED
    BY <1>10, <1>11, <1>12, <1>13 DEF Next

\* Nobody waits for nothing: a Publish that waits for its reconnect has a dial in flight
\* or a flush that will let it go, so has Connect, and the retry loop has its flush
\* (rabbitmq/publisher.go:106-140, common.go:262-316), whatever crashes, drops and
\* closes come between.
THEOREM NobodyStranded == Spec => []Awaited
<1>1. Init => Awaited
    BY ConstantsAssumption DEF Init, Awaited, CallAwaited, ReplicaAwaited, Flushes, BackgroundBusy
<1> QED
    BY <1>1, Invariant, AwaitedStep, PTL DEF Spec
=============================================================================
