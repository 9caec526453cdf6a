--------------------------- MODULE MCGridWrapper ---------------------------
EXTENDS GridWrapper

CONSTANTS host, other, zone, nowhere, localEnd

\* The zone of the host at the start, another one, and none.
MCLabels == {[k \in {zone} |-> "a"], [k \in {zone} |-> "b"], NoMap}

\* A service's usual endpoints, and those of kubernetes with its annotations.
MCEndpoints == {[on |-> {host, other}, local |-> FALSE],
                [on |-> {other, nowhere}, local |-> TRUE]}

\* The service is kept to its zone, which the other node is not in.
MCServices0 == [k \in Svc |-> {zone}]
MCEndpoints0 == [k \in Svc |-> [on |-> {host, other}, local |-> FALSE]]
MCNodes0 == [n \in Node |-> [k \in {zone} |-> IF n = host THEN "a" ELSE "b"]]
=============================================================================
