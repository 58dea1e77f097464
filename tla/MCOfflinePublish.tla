-------------------------- MODULE MCOfflinePublish --------------------------
(* OfflinePublish for TLC: the first replica publishes every message, and a   *)
(* second one, where there is one, shares its cache.                          *)
EXTENDS OfflinePublish

CONSTANTS r1, r2

OneReplica == {r1}
TwoReplicas == {r1, r2}
AllFromFirst == [m \in Msgs |-> r1]
=============================================================================
