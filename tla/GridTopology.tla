---------------------------- MODULE GridTopology ----------------------------
(***************************************************************************)
(* What application-grid-wrapper leaves of an Endpoints object for the      *)
(* kube-proxy of its node, pkg/application-grid-wrapper/storage/util.go.    *)
(*                                                                         *)
(* An Endpoints object is [on, local]: its addresses, each named by the     *)
(* node it is on, and whether it carries the annotations of a local         *)
(* endpoint that parse.  Ready and not ready addresses are filtered alike.  *)
(***************************************************************************)
EXTENDS FiniteSets, Naturals

CONSTANTS Svc,        \* the names of services and of their endpoints
          Kubernetes, \* MasterEndpointName in the default namespace
          Node, hostName,
          Key,        \* the topology keys
          Labels,     \* what the nodes may be labelled with: maps from keys
          Nowhere,    \* an address without NodeName
          LocalEnd,   \* the address the annotations name, which has none either
          EndpointsObject, \* what the Endpoints may be
          WrapperInCluster

Address == Node \cup {Nowhere, LocalEnd}

ASSUME GridAssumption ==
    /\ hostName \in Node /\ Nowhere \notin Node /\ LocalEnd \notin Node
    /\ \A l \in Labels : \E D \in SUBSET Key : DOMAIN l = D
    /\ EndpointsObject \subseteq [on : SUBSET Address, local : BOOLEAN]
    /\ WrapperInCluster \in BOOLEAN

\* A Go map: a function on some of the keys.
Map(K, V) == UNION {[D -> V] : D \in SUBSET K}
Put(m, k, v) == [x \in DOMAIN m \cup {k} |-> IF x = k THEN v ELSE m[x]]
Delete(m, k) == [x \in DOMAIN m \ {k} |-> m[x]]

NoMap == [x \in {} |-> {}]

hasIntersectionLabel(keys, n1, n2) ==
    \E k \in keys \cap DOMAIN n1 \cap DOMAIN n2 : n1[k] = n2[k]

\* Addresses in the grid of the host; nothing while the host is unknown.
filterConcernedAddress(keys, nodes, address) ==
    {a \in address \cap DOMAIN nodes :
        hostName \in DOMAIN nodes /\ hasIntersectionLabel(keys, nodes[hostName], nodes[a])}

genLocalEndpoints(k, eps) ==
    IF WrapperInCluster /\ k = Kubernetes /\ eps.local THEN {LocalEnd} ELSE eps.on

\* Dangling endpoints and those of a service without topology keys stay whole.
pruneEndpoints(k, eps, services, nodes) ==
    IF k \in DOMAIN services /\ services[k] # {}
      THEN filterConcernedAddress(services[k], nodes, genLocalEndpoints(k, eps))
      ELSE genLocalEndpoints(k, eps)
=============================================================================
