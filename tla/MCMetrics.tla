----------------------------- MODULE MCMetrics -----------------------------
(* A small instance of Metrics for TLC. *)
EXTENDS Metrics

CONSTANTS s1, s2, g1, key1
=============================================================================
