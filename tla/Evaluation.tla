------------------------------ MODULE Evaluation ------------------------------
(***************************************************************************)
(* Fixed-input evaluation with awaited observations: runWithEvents of       *)
(* effect-study's Evaluation.ts.  A bounded number of trials run at once.   *)
(* Each tells the observer that it starts, evaluates its input and tells    *)
(* the observer its outcome; observations take turns through a one-permit   *)
(* serializer.  An evaluator may fail as expected (a settled trial) or die; *)
(* an observation may be refused, with or without having been retained; the *)
(* run may be interrupted at any point.  What the observer retains is kept  *)
(* as the view it adds up to, one application of reduce for every event.    *)
(***************************************************************************)
EXTENDS Integers, FiniteSets

CONSTANTS
  Inputs,       \* how many inputs are evaluated
  Concurrency,  \* options.concurrency
  None

VARIABLES
  main,         \* where the run itself is
  pc,           \* where each trial is
  outcome,      \* what each evaluator has produced
  closed,       \* closed: the cause of an observation that failed
  termination,  \* termination: the first evaluator cause that is no outcome
  interrupted,  \* whether the run has been interrupted
  lost,         \* whether the observer has left a call without acknowledging it
  view,         \* what the observer has retained
  result        \* how the run ended

vars == <<main, pc, outcome, closed, termination, interrupted, lost, view, result>>

Trials == 0..(Inputs - 1)
Outcomes == {"Completed", "Failed"}
Results == {"Succeeded", "Died", "Abandoned"}
Causes == [trial : Trials, kind : {"Defect", "Interrupt"}]

ASSUME EvaluationAssumption ==
  /\ Inputs \in Nat /\ Concurrency \in Nat \ {0}
  /\ None \notin Outcomes \cup Causes \cup Results

-------------------------------------------------------------------------------
(* reduce, event by event *)
Empty == [status |-> "Unplanned", trials |-> << >>, cause |-> None]

Planned(v) ==
  [status |-> "Planned", cause |-> None, trials |-> [i \in Trials |-> "NotStarted"]]

TrialStarted(v, i) == [v EXCEPT !.trials[i] = "Unresolved"]

TrialSettled(v, i) == [v EXCEPT !.trials[i] = outcome[i]]

TrialInterrupted(v, i) ==
  [v EXCEPT !.trials[i] = IF @ = "Unresolved" THEN "LocallyInterrupted" ELSE @]

Completed(v) == [v EXCEPT !.status = "Completed"]

Terminated(v) == [v EXCEPT !.status = "Terminated", !.cause = termination]

-------------------------------------------------------------------------------
(* The serializer and the observer behind it *)

(* Trials in the middle of an observation hold the serializer's permit.     *)
Observing == {i \in Trials : pc[i] \in {"Starting", "Settling", "Refused"}}

(* Variant: a refused observation gives the permit back before it closes    *)
(* the observer.                                                            *)
FreeBeforeClosing == \A i \in Observing : pc[i] = "Refused"

Free == Observing = {}

(* An observation ends without acknowledgment; the observer may have        *)
(* retained the event all the same.                                         *)
Lose(next) ==
  /\ lost' = TRUE
  /\ view' \in {view, next}

(* What a trial is telling the observer.                                    *)
Told(i) ==
  IF pc[i] = "Starting" THEN TrialStarted(view, i) ELSE TrialSettled(view, i)

-------------------------------------------------------------------------------
Init ==
  /\ main = "Planning"
  /\ pc = [i \in Trials |-> "Queued"] /\ outcome = [i \in Trials |-> None]
  /\ closed = FALSE /\ lost = FALSE /\ termination = None
  /\ interrupted = FALSE
  /\ view = Empty /\ result = None

(* The steps of one trial *)

Go(i, at) == pc' = [pc EXCEPT ![i] = at]

Active == {i \in Trials : pc[i] \notin {"Queued", "Published", "Gone"}}

(* Variant: no bound on active trials.                                      *)
AdmitAny(i) ==
  /\ main = "Running" /\ pc[i] = "Queued"
  /\ Go(i, "ToStart")
  /\ UNCHANGED <<main, outcome, closed, termination, interrupted, lost, view, result>>

(* forEach starts the inputs in order, as many at once as it may.           *)
Admit(i) ==
  /\ main = "Running" /\ pc[i] = "Queued"
  /\ \A j \in 0..(i - 1) : pc[j] # "Queued"
  /\ Cardinality(Active) < Concurrency
  /\ Go(i, "ToStart")
  /\ UNCHANGED <<main, outcome, closed, termination, interrupted, lost, view, result>>

(* Variant: the acknowledgment of a start is not awaited.                   *)
ObserveUnawaited(i) ==
  /\ main = "Running" /\ Free
  /\ \/ pc[i] = "ToStart" /\ Go(i, IF closed THEN "Failing" ELSE "Started")
     \/ pc[i] = "ToSettle" /\ Go(i, IF closed THEN "Failing" ELSE "Settling")
  /\ UNCHANGED <<main, outcome, closed, termination, interrupted, lost, view, result>>

(* A trial gets the permit, unless the observer is closed: then it fails    *)
(* with the observer's cause.                                               *)
Observe(i) ==
  /\ main = "Running" /\ Free
  /\ \/ pc[i] = "ToStart" /\ Go(i, IF closed THEN "Failing" ELSE "Starting")
     \/ pc[i] = "ToSettle" /\ Go(i, IF closed THEN "Failing" ELSE "Settling")
  /\ UNCHANGED <<main, outcome, closed, termination, interrupted, lost, view, result>>

Acknowledged(i) ==
  /\ main = "Running" /\ pc[i] \in {"Starting", "Settling"}
  /\ view' = Told(i)
  /\ Go(i, IF pc[i] = "Starting" THEN "Started" ELSE "Published")
  /\ UNCHANGED <<main, outcome, closed, termination, interrupted, lost, result>>

(* The observer fails; onError closes it and the permit is given back.      *)
Refuse(i) ==
  /\ main = "Running" /\ pc[i] \in {"Starting", "Settling"}
  /\ Lose(Told(i))
  /\ Go(i, "Refused")
  /\ UNCHANGED <<main, outcome, closed, termination, interrupted, result>>

(* Variant: a refused observation gives the permit back and closes nothing. *)
CloseNothing(i) ==
  /\ pc[i] = "Refused" /\ Go(i, "Failing")
  /\ UNCHANGED <<main, outcome, closed, termination, interrupted, lost, view, result>>

Close(i) ==
  /\ pc[i] = "Refused" /\ closed' = TRUE
  /\ Go(i, "Failing")
  /\ UNCHANGED <<main, outcome, termination, interrupted, lost, view, result>>

(* The evaluator is called, unless the observer has been closed since the   *)
(* start was acknowledged.                                                  *)
Begin(i) ==
  /\ main = "Running" /\ pc[i] = "Started" /\ ~closed
  /\ Go(i, "Evaluating")
  /\ UNCHANGED <<main, outcome, closed, termination, interrupted, lost, view, result>>

(* Variant: the last cause is kept.                                         *)
Last(cause) == cause

First(cause) == IF termination = None THEN cause ELSE termination

(* Ends an evaluation without an outcome.                                   *)
Cut(i, kind) ==
  /\ termination' = First([trial |-> i, kind |-> kind])
  /\ UNCHANGED outcome

EndsItself(i) ==
  /\ main = "Running" /\ pc[i] = "Started" /\ closed
  /\ Cut(i, "Interrupt") /\ Go(i, "Failing")
  /\ UNCHANGED <<main, closed, interrupted, lost, view, result>>

Evaluated(i) ==
  /\ main = "Running" /\ pc[i] = "Evaluating"
  /\ \E o \in Outcomes : outcome' = [outcome EXCEPT ![i] = o]
  /\ Go(i, "ToSettle")
  /\ UNCHANGED <<main, closed, termination, interrupted, lost, view, result>>

(* An evaluator with a defect, or one that interrupts itself.               *)
Die(i) ==
  /\ main = "Running" /\ pc[i] = "Evaluating"
  /\ Cut(i, "Defect") /\ Go(i, "Failing")
  /\ UNCHANGED <<main, closed, interrupted, lost, view, result>>

(* A failed trial makes forEach interrupt all the others.                   *)
Fail(i) ==
  /\ pc[i] = "Failing" /\ Go(i, "Gone")
  /\ main' = IF main = "Running" THEN "Draining" ELSE main
  /\ UNCHANGED <<outcome, closed, termination, interrupted, lost, view, result>>

(* Variant: trials that wait for the serializer are not interrupted.        *)
CutNotWaiting(i) ==
  /\ main = "Draining" /\ pc[i] = "Started"
  /\ Go(i, "Gone")
  /\ UNCHANGED <<main, outcome, closed, termination, interrupted, lost, view, result>>

(* An interrupted trial has run its finalizers.  Interrupted inside the     *)
(* observer, it closes it.                                                  *)
CutWaiting(i) ==
  /\ main = "Draining" /\ pc[i] \in {"ToStart", "Started", "ToSettle"}
  /\ Go(i, "Gone")
  /\ UNCHANGED <<main, outcome, closed, termination, interrupted, lost, view, result>>

CutEvaluating(i) ==
  /\ main = "Draining" /\ pc[i] = "Evaluating"
  /\ Cut(i, "Interrupt") /\ Go(i, "Gone")
  /\ UNCHANGED <<main, closed, interrupted, lost, view, result>>

CutObserving(i) ==
  /\ main = "Draining" /\ pc[i] \in {"Starting", "Settling"}
  /\ Lose(Told(i)) /\ closed' = TRUE
  /\ Go(i, "Gone")
  /\ UNCHANGED <<main, outcome, termination, interrupted, result>>

Trial(i) ==
  \/ Admit(i) \/ Observe(i) \/ Acknowledged(i) \/ Refuse(i) \/ Close(i)
  \/ Begin(i) \/ EndsItself(i) \/ Evaluated(i) \/ Die(i) \/ Fail(i)
  \/ CutWaiting(i) \/ CutEvaluating(i) \/ CutObserving(i)

-------------------------------------------------------------------------------
(* The steps of the run itself *)

End(how) == main' = "Ended" /\ result' = how

PlanAcknowledged ==
  /\ main = "Planning" /\ main' = "Running"
  /\ view' = Planned(view)
  /\ UNCHANGED <<pc, outcome, closed, termination, interrupted, lost, result>>

(* Variant: the completion is announced once no evaluation is left.         *)
AnnounceEarly ==
  /\ main = "Running" /\ \A i \in Trials : pc[i] \in {"ToSettle", "Published"}
  /\ main' = "Completing"
  /\ UNCHANGED <<pc, outcome, closed, termination, interrupted, lost, view, result>>

(* Every trial is published; only then is the completion announced.         *)
AnnounceCompleted ==
  /\ main = "Running" /\ \A i \in Trials : pc[i] = "Published"
  /\ main' = "Completing"
  /\ UNCHANGED <<pc, outcome, closed, termination, interrupted, lost, view, result>>

CompletedAcknowledged ==
  /\ main = "Completing" /\ view' = Completed(view)
  /\ End("Succeeded")
  /\ UNCHANGED <<pc, outcome, closed, termination, interrupted, lost>>

(* The observer fails, or the run is interrupted, in one of its own calls.  *)
(* A terminating run keeps its cause (ignoreCause).                         *)
OwnCall ==
  CASE main = "Planning" -> Planned(view)
    [] main = "Completing" -> Completed(view)
    [] main = "Terminating" -> Terminated(view)

LoseOwn ==
  /\ main \in {"Planning", "Completing", "Terminating"}
  /\ Lose(OwnCall) /\ closed' = TRUE
  /\ End(IF main = "Terminating" THEN "Died" ELSE "Abandoned")
  /\ UNCHANGED <<pc, outcome, termination>>

OwnRefused == LoseOwn /\ UNCHANGED interrupted

(* All trials have gone.  The cause is reported unless the observer is      *)
(* closed or an interruption is pending.                                    *)
Reportable == ~closed /\ ~interrupted /\ termination # None

Drained ==
  /\ main = "Draining" /\ Active = {}
  /\ IF Reportable
     THEN main' = "Terminating" /\ UNCHANGED result
     ELSE End(IF termination # None /\ ~closed THEN "Died" ELSE "Abandoned")
  /\ UNCHANGED <<pc, outcome, closed, termination, interrupted, lost, view>>

TerminatedAcknowledged ==
  /\ main = "Terminating" /\ view' = Terminated(view)
  /\ End("Died")
  /\ UNCHANGED <<pc, outcome, closed, termination, interrupted, lost>>

Main ==
  \/ PlanAcknowledged \/ AnnounceCompleted \/ CompletedAcknowledged
  \/ OwnRefused \/ Drained \/ TerminatedAcknowledged

(* The caller interrupts the run.                                           *)
Interrupt ==
  /\ ~interrupted /\ main # "Ended" /\ interrupted' = TRUE
  /\ \/ LoseOwn
     \/ /\ main \in {"Running", "Draining"} /\ main' = "Draining"
        /\ UNCHANGED <<pc, outcome, closed, termination, lost, view, result>>

(* After the run the caller notes a trial whose local cleanup it has seen.  *)
NoteInterrupted(i) ==
  /\ main = "Ended" /\ pc[i] = "Gone"
  /\ view.status # "Unplanned"
  /\ view' = TrialInterrupted(view, i)
  /\ UNCHANGED <<main, pc, outcome, closed, termination, interrupted, lost, result>>

Next ==
  \/ Main \/ Interrupt
  \/ \E i \in Trials : Trial(i) \/ NoteInterrupted(i)

Spec == Init /\ [][Next]_vars

(* Evaluators and observers are assumed to return; the rest is scheduled    *)
(* by the runtime.                                                          *)
FairSpec == Spec /\ WF_vars(Main) /\ \A i \in Trials : WF_vars(Trial(i))

-------------------------------------------------------------------------------
Views ==
  [status : {"Unplanned", "Planned", "Completed", "Terminated"},
   trials : [Trials -> Outcomes \cup {"NotStarted", "Unresolved", "LocallyInterrupted"}]
              \cup {<< >>},
   cause : Causes \cup {None}]

(* Every variable has its type (Evaluation.ts:304-308).                     *)
TypeOK ==
  /\ main \in {"Planning", "Running", "Completing", "Draining", "Terminating", "Ended"}
  /\ pc \in [Trials -> {"Queued", "ToStart", "Starting", "Started", "Evaluating",
                        "ToSettle", "Settling", "Refused", "Failing", "Published", "Gone"}]
  /\ outcome \in [Trials -> Outcomes \cup {None}]
  /\ closed \in BOOLEAN /\ lost \in BOOLEAN /\ interrupted \in BOOLEAN
  /\ termination \in Causes \cup {None}
  /\ view \in Views
  /\ result \in Results \cup {None}

(* Whatever becomes of the run and of the observer, what was retained tells *)
(* the truth: a trial it shows as not started was never evaluated, and a    *)
(* trial it shows as settled has the outcome its evaluator produced         *)
(* (Evaluation.ts:276-278, 321-329).                                        *)
ViewTruthful ==
  \A i \in DOMAIN view.trials :
    /\ view.trials[i] = "NotStarted" =>
         outcome[i] = None /\ pc[i] \notin {"Started", "Evaluating"}
    /\ view.trials[i] \in Outcomes => view.trials[i] = outcome[i]
    /\ pc[i] = "Published" => view.trials[i] = outcome[i]

(* A caller and a reader of the view agree: a run succeeds only with its    *)
(* completion and every outcome retained, and one that died with an         *)
(* observer at work and no interruption is retained as terminated by the    *)
(* trial that died, not by one cut short because of it                      *)
(* (Evaluation.ts:326-328, 332-350).                                        *)
ResultMatchesView ==
  /\ result = "Succeeded" =>
       view.status = "Completed" /\ \A i \in Trials : view.trials[i] = outcome[i]
  /\ result = "Died" /\ ~lost /\ ~interrupted =>
       view.status = "Terminated" /\ view.cause.kind = "Defect"
  /\ view.cause # None => view.cause.kind = "Defect"

(* Never more trials under way than the concurrency asked for, and none     *)
(* once the run has ended (Evaluation.ts:279-281).                          *)
NothingLeftRunning ==
  /\ Cardinality(Active) <= Concurrency
  /\ main = "Ended" => Active = {}

(* An observer that has left a call unacknowledged is not told anything     *)
(* again, not even the termination (Evaluation.ts:279-281, 310-315, 336).   *)
LostObserverLeftAlone ==
  [][lost /\ main # "Ended" =>
       /\ view' = view
       /\ \A i \in Trials : pc'[i] \in {"Starting", "Settling"} => pc'[i] = pc[i]
       /\ main' = "Terminating" => main = "Terminating"]_vars

(* An evaluator is called only for a trial whose start the observer has     *)
(* retained.  From the moment the observer leaves a call unacknowledged,    *)
(* whichever trial's it was, evaluators are called only as long as that     *)
(* trial still holds the serializer: admission is closed before the permit  *)
(* is free, though other trials had their starts acknowledged before        *)
(* (Evaluation.ts:277, 279-281, 310-315, 325).                              *)
AdmissionClosedFirst ==
  [][\A i \in Trials : pc'[i] = "Evaluating" /\ pc[i] # "Evaluating" =>
       /\ view.trials[i] = "Unresolved"
       /\ lost => \E j \in Trials : pc[j] = "Refused"]_vars

View == INSTANCE EvaluationView
  WITH status <- view.status, trials <- view.trials, cause <- view.cause

(* What is retained develops as EvaluationView says (Evaluation.ts:164-202, *)
(* 317-350).                                                                *)
ImplementsView == View!Spec

(* Every run ends, its trials drained, when evaluators and observers return *)
(* (Evaluation.ts:284-293).                                                 *)
RunEnds == <>(main = "Ended")
===============================================================================
