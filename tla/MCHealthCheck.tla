--------------------------- MODULE MCHealthCheck ---------------------------
(* Instances of HealthCheck for TLC: the host h, a node a of its zone, a   *)
(* node f of another zone, a master m.                                     *)
EXTENDS HealthCheck, TLC

CONSTANTS h, a, f, m

Zones == (h :> "z1") @@ (a :> "z1") @@ (f :> "z2") @@ (m :> "z1")
ZonesOfNode == [n \in Node |-> Zones[n]]
WholeCluster == {Node}
AllLinks == {{}, {h}, Node}
HostOnly == {{h}}
ZonesOff == {"closed"}
EveryPlugin == {Plugin}
=============================================================================
