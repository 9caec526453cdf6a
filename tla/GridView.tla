------------------------------ MODULE GridView ------------------------------
(***************************************************************************)
(* What the wrapper's cache promises: at any time its list of endpoints is  *)
(* the pruning of the endpoints it was last told, by the services and the   *)
(* nodes it was last told, however these three arrive.                      *)
(***************************************************************************)
EXTENDS GridTopology

VARIABLES services, endpoints, nodes,  \* the objects last told
          view                         \* what GetEndpoints returns

Pruned(e, s, n) == [k \in DOMAIN e |-> pruneEndpoints(k, e[k], s, n)]

Init == /\ services \in Map(Svc, SUBSET Key) /\ nodes \in Map(Node, Labels)
        /\ endpoints \in Map(Svc, EndpointsObject)
        /\ view = Pruned(endpoints, services, nodes)

\* One object is told or taken away, and the whole view follows at once.
Told(m, n, K, V) == \E k \in K : n = Delete(m, k) \/ \E v \in V : n = Put(m, k, v)

Next == /\ \/ Told(services, services', Svc, SUBSET Key) /\ UNCHANGED <<endpoints, nodes>>
           \/ Told(endpoints, endpoints', Svc, EndpointsObject) /\ UNCHANGED <<services, nodes>>
           \/ Told(nodes, nodes', Node, Labels) /\ UNCHANGED <<services, endpoints>>
        /\ view' = Pruned(endpoints', services', nodes')

Spec == Init /\ [][Next]_<<services, endpoints, nodes, view>>
=============================================================================
