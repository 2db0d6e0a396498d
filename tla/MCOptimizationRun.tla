--------------------------- MODULE MCOptimizationRun ---------------------------
(* OptimizationRun for TLC: two workers that race for two trials a leg, one *)
(* resumption, and a budget and a space that the trials use up.             *)
EXTENDS OptimizationRun
===============================================================================
