----------------------------- MODULE TrialLedger ------------------------------
(***************************************************************************)
(* What an optimization promises of its trials, whoever evaluates them: a   *)
(* trial is reserved under a number of its own, within the budget, while    *)
(* the optimization is running; it gets one outcome and keeps it; and once  *)
(* the optimization has ended nothing changes any more.  AskTell.tla and    *)
(* OptimizationRun.tla are shown to implement this specification.           *)
(***************************************************************************)
EXTENDS Naturals

CONSTANTS
  Budget,     \* how many trials may be reserved
  Running,    \* the state of a trial without an outcome
  Cancelled,  \* the state of a trial that was given up
  Outcomes    \* the states an evaluated trial may end in

VARIABLES
  lifecycle,  \* "Running" until the optimization ends
  trials      \* the state of every trial reserved so far, by number

vars == <<lifecycle, trials>>

With(n, s) == [k \in DOMAIN trials \cup {n} |-> IF k = n THEN s ELSE trials[k]]

Init == lifecycle = "Running" /\ trials = << >>

Reserve(n) ==
  /\ lifecycle = "Running" /\ n \notin DOMAIN trials
  /\ trials' = With(n, Running)
  /\ UNCHANGED lifecycle

Finish(n, s) ==
  /\ lifecycle = "Running" /\ n \in DOMAIN trials /\ trials[n] = Running
  /\ trials' = With(n, s)
  /\ UNCHANGED lifecycle

(* The optimization completes; or it is cancelled or fails, and gives up    *)
(* its trials without an outcome, or leaves them as they are.               *)
GiveUp ==
  [n \in DOMAIN trials |-> IF trials[n] = Running THEN Cancelled ELSE trials[n]]

End(final) ==
  /\ lifecycle = "Running" /\ lifecycle' = final
  /\ trials' = trials \/ (final # "Completed" /\ trials' = GiveUp)

Next ==
  \/ \E n \in 0..(Budget - 1) : Reserve(n)
  \/ \E n \in DOMAIN trials : \E s \in Outcomes \cup {Cancelled} : Finish(n, s)
  \/ \E final \in {"Completed", "Cancelled", "Failed"} : End(final)

Spec == Init /\ [][Next]_vars
===============================================================================
