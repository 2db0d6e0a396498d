------------------------------- MODULE Collecting ------------------------------
(***************************************************************************)
(* Evaluation.runCollecting (effect-study): a bounded pool of fibers          *)
(* evaluates the inputs in order.  A typed failure is an outcome; when more  *)
(* than MaxFailures have failed, inputs that have not started are skipped,   *)
(* those that have drain, and the call fails with the final count.  A defect *)
(* ends everything.  Other modules say what an evaluation does.              *)
(***************************************************************************)
EXTENDS Naturals, FiniteSets

CONSTANTS
  Inputs,       \* how many inputs there are
  Concurrency,  \* how many are evaluated at once
  MaxFailures,  \* how many may fail
  None

(* What the theorems about any instance assume of it.                       *)
CollectingAssumption ==
  Inputs \in Nat /\ Concurrency \in Nat \ {0} /\ MaxFailures \in Nat

VARIABLES
  trial,     \* the state of each input's trial
  failures,  \* the failures counted
  verdict    \* how the call ended

vars == <<trial, failures, verdict>>

Trials == 1..Inputs
In(states) == {i \in Trials : trial[i] \in states}
Running == In({"running"})

Init ==
  /\ trial = [i \in Trials |-> "waiting"]
  /\ failures = 0
  /\ verdict = None

(* Effect.forEach takes the inputs in order as fibers come free.            *)
Turn(i) ==
  /\ verdict = None
  /\ trial[i] = "waiting"
  /\ \A j \in 1..(i - 1) : trial[j] # "waiting"
  /\ Cardinality(Running) < Concurrency

BudgetSpent == failures > MaxFailures

Start(i) ==
  /\ Turn(i) /\ ~BudgetSpent
  /\ trial' = [trial EXCEPT ![i] = "running"]
  /\ UNCHANGED <<failures, verdict>>

Skip(i) ==
  /\ Turn(i) /\ BudgetSpent
  /\ trial' = [trial EXCEPT ![i] = "skipped"]
  /\ UNCHANGED <<failures, verdict>>

Complete(i) ==
  /\ trial[i] = "running"
  /\ trial' = [trial EXCEPT ![i] = "completed"]
  /\ UNCHANGED <<failures, verdict>>

Fail(i) ==
  /\ trial[i] = "running"
  /\ trial' = [trial EXCEPT ![i] = "failed"]
  /\ failures' = failures + 1
  /\ UNCHANGED verdict

Finish ==
  /\ verdict = None
  /\ In({"waiting", "running"}) = {}
  /\ verdict' = IF BudgetSpent THEN "TooManyFailures" ELSE "Collected"
  /\ UNCHANGED <<trial, failures>>

(* A defect in one evaluation interrupts the others.                        *)
Die ==
  /\ Running # {}
  /\ trial' = [i \in Trials |-> IF i \in Running THEN "interrupted" ELSE trial[i]]
  /\ verdict' = "Died"
  /\ UNCHANGED failures

Next ==
  \/ \E i \in Trials : Start(i) \/ Skip(i) \/ Complete(i) \/ Fail(i)
  \/ Finish \/ Die

Spec == Init /\ [][Next]_vars

-------------------------------------------------------------------------------
TypeOK ==
  /\ trial \in [Trials -> {"waiting", "running", "completed", "failed", "skipped", "interrupted"}]
  /\ failures \in Nat
  /\ verdict \in {None, "Collected", "TooManyFailures", "Died"}

(* The budget is overshot by no more than the evaluations that were running  *)
(* beside the one that spent it, though the count is read when a trial        *)
(* starts and raised when it ends; the call ends when nothing runs any more,  *)
(* reports every failure, and has skipped nothing when it collects.          *)
OvershootBounded ==
  /\ failures <= MaxFailures + Concurrency
  /\ failures = Cardinality(In({"failed"}))
  /\ verdict # None => Running = {}
  /\ verdict = "Collected" => In({"waiting", "skipped"}) = {}
===============================================================================
