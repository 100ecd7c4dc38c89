-------------------------- MODULE MC_MetricsCollector --------------------------
(* Model-checking instance of MetricsCollector: two label sets.            *)
EXTENDS MetricsCollector, TLC

CONSTANTS k1, k2

MCKeys == {k1, k2}
=============================================================================
