---------------------------- MODULE EvaluationView ----------------------------
(***************************************************************************)
(* What the retained observations of one fixed-input evaluation promise to  *)
(* whoever reads them (the View of effect-study's Evaluation.ts): inputs    *)
(* are planned once; a trial is started before it is settled, and settled   *)
(* once; the evaluation is completed only when every trial is settled, and  *)
(* terminated only with the cause that ended it; nothing but a note of      *)
(* local interruption follows either.  Evaluation.tla is shown to implement *)
(* this specification.                                                      *)
(***************************************************************************)
EXTENDS Integers

CONSTANTS
  Inputs,    \* how many inputs are planned
  Outcomes,  \* the states of a settled trial
  Causes,    \* what may terminate an evaluation
  None

VARIABLES
  status,  \* "Unplanned", "Planned", "Completed" or "Terminated"
  trials,  \* the state of every planned trial, by number
  cause    \* why the evaluation terminated

vars == <<status, trials, cause>>

Trials == 0..(Inputs - 1)

Init == status = "Unplanned" /\ trials = << >> /\ cause = None

Plan ==
  /\ status = "Unplanned" /\ status' = "Planned"
  /\ trials' = [i \in Trials |-> "NotStarted"]
  /\ UNCHANGED cause

Start(i) ==
  /\ status = "Planned" /\ trials[i] = "NotStarted"
  /\ trials' = [trials EXCEPT ![i] = "Unresolved"]
  /\ UNCHANGED <<status, cause>>

Settle(i, outcome) ==
  /\ status = "Planned" /\ trials[i] = "Unresolved"
  /\ trials' = [trials EXCEPT ![i] = outcome]
  /\ UNCHANGED <<status, cause>>

Complete ==
  /\ status = "Planned" /\ \A i \in Trials : trials[i] \in Outcomes
  /\ status' = "Completed"
  /\ UNCHANGED <<trials, cause>>

Terminate(c) ==
  /\ status = "Planned"
  /\ status' = "Terminated" /\ cause' = c
  /\ UNCHANGED trials

(* A reader who saw the trial's local cleanup may add that it was            *)
(* interrupted; this settles nothing.                                        *)
NoteInterrupted(i) ==
  /\ status # "Unplanned" /\ trials[i] = "Unresolved"
  /\ trials' = [trials EXCEPT ![i] = "LocallyInterrupted"]
  /\ UNCHANGED <<status, cause>>

Next ==
  \/ Plan \/ Complete
  \/ \E c \in Causes : Terminate(c)
  \/ \E i \in Trials : Start(i) \/ NoteInterrupted(i)
                       \/ \E outcome \in Outcomes : Settle(i, outcome)

Spec == Init /\ [][Next]_vars
===============================================================================
