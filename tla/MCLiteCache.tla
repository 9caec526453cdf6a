---------------------------- MODULE MCLiteCache ----------------------------
(* A small instance of LiteCache for TLC: watches of one key.              *)
EXTENDS LiteCache
CONSTANTS k1, w1, w2, w3
MCKeyOf == [w \in Watch |-> k1]
=============================================================================
