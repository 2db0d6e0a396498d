--------------------------- MODULE MCTrialEvaluation ---------------------------
(* TrialEvaluation for TLC: two trials of one configuration, one of which    *)
(* reports, from two fibers of its objective.                               *)
EXTENDS TrialEvaluation, TLC

CONSTANTS t1, t2

MCTrials == {t1, t2}
MCSteps == t1 :> {1, 2} @@ t2 :> {}
===============================================================================
