---------------------------- MODULE MCLiteProxy ----------------------------
(* A small instance of LiteProxy for TLC.                                  *)
EXTENDS LiteProxy, TLC
CONSTANTS c1, s1, s2, salt1, salt2, salt3
=============================================================================
