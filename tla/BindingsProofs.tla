--------------------------- MODULE BindingsProofs ---------------------------
(***************************************************************************)
(* What holds of the bindings of a queue for any number of clients,        *)
(* processes, keys and faults: a process has one live client per scope,    *)
(* what a connected client handles is bound, a binding has its record, and *)
(* no cleanup unbinds under a client of its own process.                   *)
(***************************************************************************)
EXTENDS Bindings, TLAPS

\* What the claims about one client rest on: only a live client is connected, a
\* handler is there before its record and its record before its binding, and a
\* cleanup takes nothing that its client handles.
ClientInv(c) ==
    /\ up[c] => Live(c)
    /\ st[c] \in {"new", "connecting"} => handlers[c] = {}
    /\ storing[c] # None => storing[c] \in handlers[c]
    /\ binding[c] # None => binding[c] \in handlers[c] /\ storing[c] = None
    /\ unbinding[c] # None => unbinding[c] \notin handlers[c] /\ clean[c] # "off"
    /\ Live(c) => handlers[c] \subseteq records \cup unrecorded \cup {storing[c]}

\* A key that was bound again while a cleanup was about to delete its record.
CondemnedKnown == Condemned \cap bindings \subseteq unrecorded

\* The inductive invariant.
Inv ==
    /\ TypeOK
    /\ ClaimIsLive
    /\ \A c \in Clients : ClientInv(c)
    /\ CondemnedKnown
    /\ LiveIsBound
    /\ BindingsRecorded

\* The groups of variables a step leaves alone.
USE DEF shared, life, registration, cleanup, past

-----------------------------------------------------------------------------

\* No client has done anything: nothing is claimed, and what is bound is recorded.
LEMMA InitInv == Init => Inv
<1> SUFFICES ASSUME Init PROVE Inv
    OBVIOUS
<1> USE BindingsAssumption DEF Init
<1>1. TypeOK
    BY DEF TypeOK
<1>2. ClaimIsLive
    BY DEF ClaimIsLive, Live
<1>3. \A c \in Clients : ClientInv(c)
    BY DEF ClientInv, Live
<1>4. CondemnedKnown
    BY DEF CondemnedKnown, Condemned
<1>5. LiveIsBound /\ BindingsRecorded
    BY DEF LiveIsBound, BindingsRecorded
<1> QED
    BY <1>1, <1>2, <1>3, <1>4, <1>5 DEF Inv

-----------------------------------------------------------------------------
(* Types                                                                   *)

\* Every step keeps every variable in its type.
LEMMA TypeStep == TypeOK /\ [Next]_vars => TypeOK'
<1> SUFFICES ASSUME TypeOK, [Next]_vars PROVE TypeOK'
    OBVIOUS
<1> USE BindingsAssumption DEF TypeOK
<1>1. ASSUME NEW c \in Clients, claimCacheKey(c) PROVE TypeOK'
    BY <1>1 DEF claimCacheKey
<1>2. ASSUME NEW c \in Clients, Connect(c) PROVE TypeOK'
  <2>1. PICK landed \in BOOLEAN : up' = [up EXCEPT ![c] = landed]
      BY <1>2 DEF Connect
  <2>2. up' \in [Clients -> BOOLEAN]
      BY <2>1
  <2> QED
      BY <1>2, <2>2 DEF Connect
<1>3. ASSUME NEW c \in Clients, ConnectRejected(c) \/ CloseBegins(c) PROVE TypeOK'
    BY <1>3 DEF ConnectRejected, CloseBegins
<1>4. ASSUME NEW c \in Clients, releaseCacheKey(c) PROVE TypeOK'
    BY <1>4 DEF releaseCacheKey
<1>5. ASSUME NEW p \in Procs, Crash(p) PROVE TypeOK'
  <2>1. up' \in [Clients -> BOOLEAN]
      BY <1>5 DEF Crash
  <2>2. st' \in [Clients -> {"new", "refused", "connecting", "open", "closing", "closed"}]
      BY <1>5 DEF Crash
  <2>3. clean' \in [Clients -> {"off", "waiting", "listed", "stopped"}]
      BY <1>5 DEF Crash
  <2>4. /\ left' \in [Clients -> SUBSET Keys] /\ todo' \in [Clients -> SUBSET Keys]
        /\ storing' \in [Clients -> Keys \cup {None}]
        /\ binding' \in [Clients -> Keys \cup {None}]
        /\ unbinding' \in [Clients -> Keys \cup {None}]
        /\ deleting' \in [Clients -> Keys \cup {None}]
      BY <1>5 DEF Crash
  <2>5. faults' \in 0..MaxFaults
      BY <1>5 DEF Crash, Fault
  <2> QED
      BY <1>5, <2>1, <2>2, <2>3, <2>4, <2>5 DEF Crash
<1>6. ASSUME NEW c \in Clients, Drop(c) \/ Reconnect(c) PROVE TypeOK'
  <2>1. up' \in [Clients -> BOOLEAN] /\ bindings' \subseteq Keys /\ unrecorded' \subseteq Keys
      BY <1>6 DEF Drop, Reconnect
  <2>2. faults' \in 0..MaxFaults
      BY <1>6 DEF Drop, Reconnect, Fault
  <2> QED
      BY <1>6, <2>1, <2>2 DEF Drop, Reconnect
<1>7. ASSUME NEW c \in Clients, NEW k \in Keys, registerHandler(c, k) PROVE TypeOK'
    BY <1>7 DEF registerHandler
<1>8. ASSUME NEW c \in Clients, storeHandlerInfo(c) PROVE TypeOK'
    BY <1>8 DEF storeHandlerInfo
<1>9. ASSUME NEW c \in Clients, StoreFails(c) PROVE TypeOK'
    BY <1>9 DEF StoreFails, Fault
<1>10. ASSUME NEW c \in Clients, bindHandler(c) PROVE TypeOK'
  <2>1. up' \in [Clients -> BOOLEAN] /\ bindings' \subseteq Keys /\ unrecorded' \subseteq Keys
      BY <1>10 DEF bindHandler
  <2>2. faults' \in 0..MaxFaults
      BY <1>10 DEF bindHandler, Fault
  <2> QED
      BY <1>10, <2>1, <2>2 DEF bindHandler
<1>11. ASSUME NEW c \in Clients, Start(c) PROVE TypeOK'
    BY <1>11 DEF Start
<1>12. ASSUME NEW c \in Clients, CleanupStops(c) \/ CleanupLists(c) PROVE TypeOK'
    BY <1>12 DEF CleanupStops, CleanupLists
<1>13. ASSUME NEW c \in Clients, NEW k \in Keys, CleanupChecks(c, k) PROVE TypeOK'
    BY <1>13 DEF CleanupChecks, Fault
<1>14. ASSUME NEW c \in Clients, CleanupUnbinds(c) PROVE TypeOK'
    BY <1>14 DEF CleanupUnbinds
<1>15. ASSUME NEW c \in Clients, CleanupDeletes(c) PROVE TypeOK'
    BY <1>15 DEF CleanupDeletes, Fault
<1>16. CASE UNCHANGED vars
    BY <1>16 DEF vars
<1> QED
    BY <1>1, <1>2, <1>3, <1>4, <1>5, <1>6, <1>7, <1>8, <1>9, <1>10, <1>11, <1>12,
       <1>13, <1>14, <1>15, <1>16
    DEF Next, SystemStep

-----------------------------------------------------------------------------
(* The claim                                                               *)

\* A live client has its process' claim from Connect to Close.
LEMMA ClaimStep == TypeOK /\ ClaimIsLive /\ [Next]_vars => ClaimIsLive'
<1> SUFFICES ASSUME TypeOK, ClaimIsLive, [Next]_vars PROVE ClaimIsLive'
    OBVIOUS
<1> USE BindingsAssumption DEF TypeOK, ClaimIsLive, Live
<1>1. ASSUME NEW c \in Clients, claimCacheKey(c) PROVE ClaimIsLive'
    BY <1>1 DEF claimCacheKey
<1>2. ASSUME NEW c \in Clients, Connect(c) \/ ConnectRejected(c) \/ CloseBegins(c)
      PROVE  ClaimIsLive'
    BY <1>2 DEF Connect, ConnectRejected, CloseBegins
<1>3. ASSUME NEW c \in Clients, releaseCacheKey(c) PROVE ClaimIsLive'
    BY <1>3 DEF releaseCacheKey
<1>4. ASSUME NEW p \in Procs, Crash(p) PROVE ClaimIsLive'
  <2>1. \A c \in Clients : Live(c)' <=> Live(c) /\ Proc[c] # p
      BY <1>4 DEF Crash
  <2> QED
      BY <1>4, <2>1 DEF Crash
<1>5. CASE UNCHANGED life
    BY <1>5
<1> QED
    BY <1>1, <1>2, <1>3, <1>4, <1>5
    DEF Next, SystemStep, Drop, Reconnect, registerHandler, storeHandlerInfo, StoreFails,
        bindHandler, Start, CleanupStops, CleanupLists, CleanupChecks, CleanupUnbinds,
        CleanupDeletes, vars

-----------------------------------------------------------------------------
(* One client                                                              *)

\* Every step keeps what holds of each client.
LEMMA ClientStep == Inv /\ [Next]_vars => (\A d \in Clients : ClientInv(d))'
<1> DEFINE Kept == \A d \in Clients : ClientInv(d)
<1> SUFFICES ASSUME Inv, [Next]_vars PROVE Kept'
    OBVIOUS
<1> USE BindingsAssumption DEF Inv, TypeOK, ClientInv, Live
<1>1. ASSUME NEW c \in Clients, claimCacheKey(c) PROVE Kept'
    BY <1>1 DEF claimCacheKey
<1>2. ASSUME NEW c \in Clients, Connect(c) PROVE Kept'
    BY <1>2 DEF Connect
<1>3. ASSUME NEW c \in Clients, ConnectRejected(c) \/ CloseBegins(c) PROVE Kept'
    BY <1>3 DEF ConnectRejected, CloseBegins
<1>4. ASSUME NEW c \in Clients, releaseCacheKey(c) PROVE Kept'
    BY <1>4 DEF releaseCacheKey
<1>5. ASSUME NEW p \in Procs, Crash(p) PROVE Kept'
    BY <1>5 DEF Crash
<1>6. ASSUME NEW c \in Clients, Drop(c) PROVE Kept'
    BY <1>6 DEF Drop
<1>7. ASSUME NEW c \in Clients, Reconnect(c) PROVE Kept'
    BY <1>7 DEF Reconnect
<1>8. ASSUME NEW c \in Clients, NEW k \in Keys, registerHandler(c, k) PROVE Kept'
    BY <1>8 DEF registerHandler
<1>9. ASSUME NEW c \in Clients, storeHandlerInfo(c) PROVE Kept'
    BY <1>9 DEF storeHandlerInfo
<1>10. ASSUME NEW c \in Clients, StoreFails(c) PROVE Kept'
    BY <1>10 DEF StoreFails
<1>11. ASSUME NEW c \in Clients, bindHandler(c) PROVE Kept'
    BY <1>11 DEF bindHandler
<1>12. ASSUME NEW c \in Clients, Start(c) \/ CleanupStops(c) \/ CleanupLists(c) PROVE Kept'
    BY <1>12 DEF Start, CleanupStops, CleanupLists
<1>13. ASSUME NEW c \in Clients, NEW k \in Keys, CleanupChecks(c, k) PROVE Kept'
    BY <1>13 DEF CleanupChecks
<1>14. ASSUME NEW c \in Clients, CleanupUnbinds(c) PROVE Kept'
    BY <1>14 DEF CleanupUnbinds
<1>15. ASSUME NEW c \in Clients, CleanupDeletes(c) PROVE Kept'
    BY <1>15 DEF CleanupDeletes
<1>16. CASE UNCHANGED vars
    BY <1>16 DEF vars
<1> QED
    BY <1>1, <1>2, <1>3, <1>4, <1>5, <1>6, <1>7, <1>8, <1>9, <1>10, <1>11, <1>12,
       <1>13, <1>14, <1>15, <1>16
    DEF Next, SystemStep

-----------------------------------------------------------------------------
(* The bindings                                                            *)

\* A binding made while its record is about to go is known to be unrecorded.
LEMMA CondemnedStep == Inv /\ [Next]_vars => CondemnedKnown'
<1> SUFFICES ASSUME Inv, [Next]_vars PROVE CondemnedKnown'
    OBVIOUS
<1> USE BindingsAssumption DEF Inv, TypeOK, CondemnedKnown, Condemned
<1>1. ASSUME NEW p \in Procs, Crash(p) PROVE CondemnedKnown'
    BY <1>1 DEF Crash
<1>2. ASSUME NEW c \in Clients, Reconnect(c) PROVE CondemnedKnown'
    BY <1>2 DEF Reconnect
<1>3. ASSUME NEW c \in Clients, storeHandlerInfo(c) PROVE CondemnedKnown'
    BY <1>3 DEF storeHandlerInfo
<1>4. ASSUME NEW c \in Clients, bindHandler(c) PROVE CondemnedKnown'
    BY <1>4 DEF bindHandler
<1>5. ASSUME NEW c \in Clients, CleanupUnbinds(c) PROVE CondemnedKnown'
    BY <1>5 DEF CleanupUnbinds
<1>6. ASSUME NEW c \in Clients, CleanupDeletes(c) PROVE CondemnedKnown'
    BY <1>6 DEF CleanupDeletes
<1>7. CASE UNCHANGED <<bindings, deleting, unrecorded>>
    BY <1>7
<1> QED
    BY <1>1, <1>2, <1>3, <1>4, <1>5, <1>6, <1>7
    DEF Next, SystemStep, claimCacheKey, Connect, ConnectRejected, CloseBegins,
        releaseCacheKey, Drop, StoreFails, Start, CleanupStops, CleanupLists,
        registerHandler, CleanupChecks, vars

\* What is bound is a handler of a live client, recorded but for the one being stored,
\* and a record goes only when its binding has gone or is known to be unrecorded.
LEMMA RecordedStep == Inv /\ [Next]_vars => BindingsRecorded'
<1> SUFFICES ASSUME Inv, [Next]_vars PROVE BindingsRecorded'
    OBVIOUS
<1> USE BindingsAssumption DEF Inv, TypeOK, ClientInv, CondemnedKnown, Condemned,
        BindingsRecorded, Live
<1>1. ASSUME NEW c \in Clients, Reconnect(c) PROVE BindingsRecorded'
    BY <1>1 DEF Reconnect
<1>2. ASSUME NEW c \in Clients, storeHandlerInfo(c) PROVE BindingsRecorded'
    BY <1>2 DEF storeHandlerInfo
<1>3. ASSUME NEW c \in Clients, StoreFails(c) PROVE BindingsRecorded'
    BY <1>3 DEF StoreFails
<1>4. ASSUME NEW c \in Clients, bindHandler(c) PROVE BindingsRecorded'
    BY <1>4 DEF bindHandler
<1>5. ASSUME NEW c \in Clients, CleanupUnbinds(c) PROVE BindingsRecorded'
    BY <1>5 DEF CleanupUnbinds
<1>6. ASSUME NEW c \in Clients, CleanupDeletes(c) PROVE BindingsRecorded'
    BY <1>6 DEF CleanupDeletes
<1>7. CASE UNCHANGED <<bindings, records, unrecorded>>
    BY <1>7
<1> QED
    BY <1>1, <1>2, <1>3, <1>4, <1>5, <1>6, <1>7
    DEF Next, SystemStep, Crash, claimCacheKey, Connect, ConnectRejected,
        CloseBegins, releaseCacheKey, Drop, Start, CleanupStops, CleanupLists,
        registerHandler, CleanupChecks, vars

\* A cleanup that takes the binding of a connected client is not of its process, or
\* the claim would make the two one client; and it stays the reason ever after.
LEMMA BoundStep == Inv /\ [Next]_vars => LiveIsBound'
<1> SUFFICES ASSUME Inv, [Next]_vars PROVE LiveIsBound'
    OBVIOUS
<1> USE BindingsAssumption DEF Inv, TypeOK, ClientInv, ClaimIsLive, LiveIsBound, Live
<1>1. ASSUME NEW c \in Clients, Connect(c) PROVE LiveIsBound'
    BY <1>1 DEF Connect
<1>2. ASSUME NEW c \in Clients, releaseCacheKey(c) PROVE LiveIsBound'
    BY <1>2 DEF releaseCacheKey
<1>3. ASSUME NEW p \in Procs, Crash(p) PROVE LiveIsBound'
  <2>1. \A c \in Clients :
           /\ clean[c] # "off" => clean'[c] # "off"
           /\ up'[c] => up[c] /\ storing'[c] = storing[c] /\ binding'[c] = binding[c]
      BY <1>3 DEF Crash
  <2> QED
      BY <1>3, <2>1 DEF Crash
<1>4. ASSUME NEW c \in Clients, Drop(c) PROVE LiveIsBound'
    BY <1>4 DEF Drop
<1>5. ASSUME NEW c \in Clients, Reconnect(c) PROVE LiveIsBound'
    BY <1>5 DEF Reconnect
<1>6. ASSUME NEW c \in Clients, NEW k \in Keys, registerHandler(c, k) PROVE LiveIsBound'
    BY <1>6 DEF registerHandler
<1>7. ASSUME NEW c \in Clients, storeHandlerInfo(c) PROVE LiveIsBound'
    BY <1>7 DEF storeHandlerInfo
<1>8. ASSUME NEW c \in Clients, StoreFails(c) PROVE LiveIsBound'
    BY <1>8 DEF StoreFails
<1>9. ASSUME NEW c \in Clients, bindHandler(c) PROVE LiveIsBound'
    BY <1>9 DEF bindHandler
<1>10. ASSUME NEW c \in Clients, Start(c) \/ CleanupStops(c) \/ CleanupLists(c)
       PROVE  LiveIsBound'
    BY <1>10 DEF Start, CleanupStops, CleanupLists
<1>11. ASSUME NEW c \in Clients, CleanupUnbinds(c) PROVE LiveIsBound'
    BY <1>11 DEF CleanupUnbinds
<1>12. CASE UNCHANGED <<up, handlers, bindings, storing, binding, clean>>
    BY <1>12
<1> QED
    BY <1>1, <1>2, <1>3, <1>4, <1>5, <1>6, <1>7, <1>8, <1>9, <1>10, <1>11, <1>12
    DEF Next, SystemStep, claimCacheKey, ConnectRejected, CloseBegins,
        CleanupDeletes, CleanupChecks, vars
-----------------------------------------------------------------------------
(* The theorems                                                            *)

\* Every step keeps the inductive invariant.
LEMMA NextInv == Inv /\ [Next]_vars => Inv'
BY TypeStep, ClaimStep, ClientStep, CondemnedStep, RecordedStep, BoundStep DEF Inv

\* The inductive invariant holds in every reachable state.
LEMMA SpecInv == Spec => []Inv
BY InitInv, NextInv, PTL DEF Spec

\* Every variable keeps its type.
THEOREM TypeCorrect == Spec => []TypeOK
BY SpecInv, PTL DEF Inv

\* In every process a cache scope has at most one live client, and is free exactly
\* when it has none (claimCacheKey, releaseCacheKey).
THEOREM ScopesClaimed == Spec => []ClaimIsLive
BY SpecInv, PTL DEF Inv

\* What a connected client handles is bound, unless the cleanup of another process
\* without the key took it (bindRegisteredHandlers, bindHandler).
THEOREM HandlersBound == Spec => []LiveIsBound
BY SpecInv, PTL DEF Inv

\* A binding has its record, but for the windows BindingsRecorded names
\* (registerHandler, storeHandlerInfo, unbindUnusedBindings).
THEOREM RecordsKept == Spec => []BindingsRecorded
BY SpecInv, PTL DEF Inv

\* No cleanup unbinds a key that a live client of its process handles: the client
\* that unbinds is connected, so live, so the only one of its process.
THEOREM CleanupSpares == Spec => OwnProcessSpared
<1> DEFINE Spares == \A k \in bindings \ bindings' :
        \E c \in Clients : /\ unbinding[c] = k
                           /\ \A d \in Clients : Live(d) /\ Proc[d] = Proc[c] =>
                                                     k \notin handlers[d]
<1>1. Inv /\ [Next]_vars => [Spares]_vars
  <2> SUFFICES ASSUME Inv, Next PROVE Spares
      BY DEF vars
  <2>1. ASSUME NEW c \in Clients, CleanupUnbinds(c) PROVE Spares
      BY <2>1 DEF CleanupUnbinds, Inv, TypeOK, ClientInv, ClaimIsLive
  <2>2. CASE bindings \subseteq bindings'
      BY <2>2
  <2> QED
      BY <2>1, <2>2
      DEF Next, SystemStep, claimCacheKey, Connect, ConnectRejected, CloseBegins,
          releaseCacheKey, Crash, Drop, Reconnect, registerHandler, storeHandlerInfo,
          StoreFails, bindHandler, Start, CleanupStops, CleanupLists, CleanupChecks,
          CleanupDeletes
<1> QED
    BY SpecInv, <1>1, PTL DEF Spec, OwnProcessSpared
=============================================================================
