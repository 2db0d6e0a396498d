----------------------------- MODULE MCEvaluation -----------------------------
(* Evaluation for TLC: four inputs, three at a time, so that one waits for  *)
(* a place while three compete for the observer.                            *)
EXTENDS Evaluation
===============================================================================
