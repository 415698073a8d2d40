----------------------------- MODULE MCMetrics -----------------------------
(* The model-checking instance of MetricsCollector. *)
EXTENDS MetricsCollector, TLC

CONSTANTS w1, w2

SymmetryWorkers == Permutations({w1, w2})
=============================================================================
