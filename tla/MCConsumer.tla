---------------------------- MODULE MCConsumer ----------------------------
(* Constants of Consumer for TLC.                                          *)
EXTENDS Consumer

T == <<"T">>
TU == <<"T", "U">>

\* Two exchanges have a type of the same name; orders routes it, bills does not.
\* An earlier version of the application handled type TU of bills.
MCHandlers == {[exchange |-> "orders", key |-> Subscribe(T, TRUE)],
               [exchange |-> "bills", key |-> Subscribe(T, FALSE)]}
MCBindings == MCHandlers \cup {[exchange |-> "bills", key |-> Subscribe(TU, FALSE)]}

MCPublished == [
    m1 |-> [exchange |-> "orders", key |-> routedKey(T, <<".">>), retries |-> [kind |-> "other", n |-> 0]],
    m2 |-> [exchange |-> "bills", key |-> T, retries |-> [kind |-> "int", n |-> 1]],
    m3 |-> [exchange |-> "bills", key |-> TU, retries |-> Absent],
    m4 |-> [exchange |-> "orders", key |-> TU, retries |-> Absent]]
MCMsgs == DOMAIN MCPublished
=============================================================================
