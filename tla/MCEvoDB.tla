------------------------------- MODULE MCEvoDB -------------------------------
(* Small instances of EvoDB for TLC: three keys and two values, a bounded or *)
(* an unbounded write cache, with and without room in the read cache.        *)
EXTENDS EvoDB
=============================================================================
