---------------------------- MODULE MCEdgeChange ----------------------------
(* A small instance of EdgeChange for TLC.                                 *)
EXTENDS EdgeChange, TLC
=============================================================================
