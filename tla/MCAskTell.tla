------------------------------ MODULE MCAskTell -------------------------------
(* AskTell for TLC: two fibers, a budget of two trials and two values, so   *)
(* that tells race for one trial, for the incumbent and for the completion. *)
EXTENDS AskTell
===============================================================================
