--------------------------- MODULE MCTunnelHosts ---------------------------
(* A small instance of TunnelHosts for TLC.                                *)
EXTENDS TunnelHosts, TLC
CONSTANTS p1, p2, p3, n1, n2
=============================================================================
