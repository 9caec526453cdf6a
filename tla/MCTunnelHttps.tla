--------------------------- MODULE MCTunnelHttps ---------------------------
EXTENDS TunnelHttps

CONSTANTS plain, exec

MCPieces == [s \in Side |-> [r \in Req |->
                IF s = "edge" /\ r = exec THEN 2 ELSE 1]]
=============================================================================
