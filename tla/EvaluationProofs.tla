--------------------------- MODULE EvaluationProofs ---------------------------
(***************************************************************************)
(* Theorems about Evaluation, for any number of inputs and any concurrency. *)
(* The inductive invariant says, beside the types: where each trial's       *)
(* record in the view and its outcome are while the trial is at each point  *)
(* (TrialInv); what the phases of the run imply (PhaseInv); that one        *)
(* observation is under way at most, none once the observer is closed, and  *)
(* that a lost observer is closed or about to be (ObserverInv); and where   *)
(* the cause of a failing run is to be found (CauseInv).                    *)
(***************************************************************************)
EXTENDS Evaluation, FiniteSetTheorems, TLAPS

TrialInv(i) ==
  /\ pc[i] \in {"Queued", "ToStart", "Starting", "Started", "Evaluating"} => outcome[i] = None
  /\ pc[i] \in {"ToSettle", "Settling", "Published"} => outcome[i] \in Outcomes
  /\ view.status # "Unplanned" =>
       /\ pc[i] \in {"Queued", "ToStart", "Starting"} => view.trials[i] = "NotStarted"
       /\ pc[i] \in {"Started", "Evaluating", "ToSettle", "Settling"} =>
            view.trials[i] = "Unresolved"
       /\ pc[i] = "Published" => view.trials[i] = outcome[i]
       /\ view.trials[i] = "NotStarted" => outcome[i] = None
       /\ view.trials[i] \in Outcomes => view.trials[i] = outcome[i]

PhaseInv ==
  /\ main = "Planning" => view.status = "Unplanned" /\ ~lost /\ ~closed
  /\ view.status = "Unplanned" =>
       view = Empty /\ main \in {"Planning", "Ended"} /\ \A i \in Trials : pc[i] = "Queued"
  /\ view.status # "Unplanned" => DOMAIN view.trials = Trials
  /\ view.status \in {"Completed", "Terminated"} => main = "Ended"
  /\ view.status = "Completed" \/ main = "Completing" => \A i \in Trials : pc[i] = "Published"
  /\ view.status = "Terminated" => view.cause # None
  /\ view.cause # None => view.status = "Terminated" /\ view.cause.kind = "Defect"
  /\ main = "Terminating" =>
       /\ ~closed /\ ~interrupted /\ ~lost
       /\ termination # None /\ termination.kind = "Defect"
  /\ main \in {"Terminating", "Ended"} =>
       \A i \in Trials : pc[i] \in {"Queued", "Published", "Gone"}
  /\ result # None => main = "Ended"
  /\ result = "Succeeded" => view.status = "Completed"
  /\ result = "Died" /\ ~lost /\ ~interrupted => view.status = "Terminated"

ObserverInv ==
  /\ \A i, j \in Trials :
       pc[i] \in {"Starting", "Settling", "Refused"} /\ pc[j] \in {"Starting", "Settling", "Refused"}
         => i = j
  /\ closed => \A i \in Trials : pc[i] \notin {"Starting", "Settling", "Refused"}
  /\ lost /\ main # "Ended" => closed \/ \E i \in Trials : pc[i] = "Refused"
  /\ closed /\ main = "Running" => \E i \in Trials : pc[i] = "Failing"
  /\ main = "Completing" => ~closed /\ ~lost

CauseInv ==
  /\ \A i \in Trials : pc[i] = "Failing" => closed \/ termination # None
  /\ main = "Draining" => closed \/ interrupted \/ termination # None
  /\ termination # None /\ termination.kind = "Interrupt" => closed \/ interrupted

CardInv == Cardinality(Active) <= Concurrency

IInv ==
  /\ TypeOK /\ \A i \in Trials : TrialInv(i)
  /\ PhaseInv /\ ObserverInv /\ CauseInv /\ CardInv

-------------------------------------------------------------------------------
LEMMA ActiveFinite == IsFiniteSet(Active) /\ Cardinality(Active) \in Nat
<1>1. IsFiniteSet(Trials)
  BY EvaluationAssumption, FS_Interval DEF Trials
<1>. QED
  BY <1>1, FS_Subset, FS_CardinalityType DEF Active

LEMMA ActiveKept == ASSUME IInv, Active' \subseteq Active PROVE CardInv'
<1>1. IsFiniteSet(Active') /\ Cardinality(Active') <= Cardinality(Active)
  BY ActiveFinite, FS_Subset
<1>2. Cardinality(Active') \in Nat
  BY <1>1, FS_CardinalityType
<1>. QED
  BY <1>1, <1>2, ActiveFinite, EvaluationAssumption DEF IInv, CardInv

LEMMA ActiveGrows ==
  ASSUME NEW i, Active' \subseteq Active \cup {i}, Cardinality(Active) < Concurrency
  PROVE  CardInv'
<1>1. IsFiniteSet(Active \cup {i}) /\ Cardinality(Active \cup {i}) \in {Cardinality(Active), Cardinality(Active) + 1}
  BY ActiveFinite, FS_AddElement
<1>. QED
  BY <1>1, ActiveFinite, FS_Subset, FS_CardinalityType, EvaluationAssumption DEF CardInv

(* What an observation under way may leave in the view.                      *)
LEMMA ToldRetained ==
  ASSUME IInv, NEW i \in Trials, pc[i] \in {"Starting", "Settling"},
         main \in {"Running", "Draining"}
  PROVE  /\ view.status = "Planned" /\ Told(i) \in Views
         /\ Told(i).status = view.status /\ Told(i).cause = view.cause
         /\ DOMAIN view.trials = Trials
         /\ Told(i).trials = [view.trials EXCEPT ![i] =
                               IF pc[i] = "Starting" THEN "Unresolved" ELSE outcome[i]]
<1>1. view.status = "Planned" /\ DOMAIN view.trials = Trials
  BY DEF IInv, TypeOK, Views, PhaseInv
<1>2. view.trials \in [Trials -> Outcomes \cup {"NotStarted", "Unresolved", "LocallyInterrupted"}]
  BY <1>1 DEF IInv, TypeOK, Views
<1>3. outcome[i] \in Outcomes \cup {None} /\ (pc[i] = "Settling" => outcome[i] \in Outcomes)
  BY DEF IInv, TypeOK, TrialInv
<1>4. Told(i) = [status |-> view.status, cause |-> view.cause,
                 trials |-> [view.trials EXCEPT ![i] =
                               IF pc[i] = "Starting" THEN "Unresolved" ELSE outcome[i]]]
  BY <1>1 DEF IInv, TypeOK, Views, Told, TrialStarted, TrialSettled
<1>. QED
  BY <1>1, <1>2, <1>3, <1>4 DEF IInv, TypeOK, Views, TrialInv, Outcomes

(* Whether or not it is retained, an observation leaves every trial's record *)
(* true.                                                                     *)
LEMMA ToldKeeps ==
  ASSUME IInv, NEW i \in Trials, pc[i] \in {"Starting", "Settling"},
         main \in {"Running", "Draining"}, UNCHANGED outcome,
         \/ view' \in {view, Told(i)} /\ (Go(i, "Refused") \/ Go(i, "Gone"))
         \/ view' = Told(i) /\ Go(i, IF pc[i] = "Starting" THEN "Started" ELSE "Published")
  PROVE  /\ \A j \in Trials : TrialInv(j)'
         /\ view'.status = "Planned" /\ view'.cause = view.cause /\ DOMAIN view'.trials = Trials
<1>. DEFINE told == IF pc[i] = "Starting" THEN "Unresolved" ELSE outcome[i]
<1>1. /\ view.status = "Planned" /\ DOMAIN view.trials = Trials
      /\ Told(i).status = view.status /\ Told(i).cause = view.cause
      /\ Told(i).trials = [view.trials EXCEPT ![i] = told]
  BY ToldRetained
<1>. HIDE DEF told
<1>2. DOMAIN Told(i).trials = Trials /\ Told(i).trials[i] = told
      /\ \A j \in Trials \ {i} : Told(i).trials[j] = view.trials[j]
  BY <1>1
<1>3. ASSUME NEW j \in Trials PROVE TrialInv(j)'
  <2>1. TrialInv(j) /\ pc = [k \in Trials |-> pc[k]]
    BY DEF IInv, TypeOK
  <2>2. CASE j # i
    <3>1. pc'[j] = pc[j] /\ view'.trials[j] = view.trials[j] /\ view'.status = view.status
      BY <1>1, <1>2, <2>1, <2>2 DEF Go
    <3>. QED
      BY <2>1, <3>1 DEF TrialInv
  <2>3. CASE j = i /\ pc[i] = "Starting"
    <3>1. told = "Unresolved" /\ outcome[i] = None /\ view.trials[i] = "NotStarted"
      BY <1>1, <2>1, <2>3 DEF told, TrialInv
    <3>2. /\ pc'[i] \in {"Started", "Refused", "Gone"} /\ outcome' = outcome
          /\ view'.trials[i] = "Unresolved" \/ (view'.trials[i] = "NotStarted" /\ pc'[i] # "Started")
      BY <1>1, <1>2, <2>1, <2>3, <3>1 DEF Go
    <3>. QED
      BY <2>3, <3>1, <3>2 DEF TrialInv, Outcomes
  <2>4. CASE j = i /\ pc[i] = "Settling"
    <3>1. told = outcome[i] /\ outcome[i] \in Outcomes /\ view.trials[i] = "Unresolved"
      BY <1>1, <2>1, <2>4 DEF told, TrialInv
    <3>2. /\ pc'[i] \in {"Published", "Refused", "Gone"} /\ outcome' = outcome
          /\ view'.trials[i] = outcome[i] \/ (view'.trials[i] = "Unresolved" /\ pc'[i] # "Published")
      BY <1>1, <1>2, <2>1, <2>4, <3>1 DEF Go
    <3>. QED
      BY <2>4, <3>1, <3>2 DEF TrialInv, Outcomes
  <2>. QED
    BY <2>2, <2>3, <2>4
<1>. QED
  BY <1>1, <1>2, <1>3

LEMMA OwnRetained ==
  ASSUME IInv, main \in {"Planning", "Completing", "Terminating"}
  PROVE  /\ OwnCall \in Views /\ DOMAIN OwnCall.trials = Trials
         /\ main = "Planning" =>
              /\ OwnCall.status = "Planned" /\ OwnCall.cause = None
              /\ \A j \in Trials : OwnCall.trials[j] = "NotStarted"
         /\ main = "Completing" =>
              /\ OwnCall.status = "Completed" /\ OwnCall.cause = view.cause
              /\ OwnCall.trials = view.trials /\ view.status = "Planned"
         /\ main = "Terminating" =>
              /\ OwnCall.status = "Terminated" /\ OwnCall.cause = termination
              /\ OwnCall.trials = view.trials /\ view.status = "Planned"
<1>1. CASE main = "Planning"
  <2>1. OwnCall = Planned(view)
    BY <1>1 DEF OwnCall
  <2>. QED
    BY <1>1, <2>1 DEF Planned, Views
<1>2. CASE main = "Completing"
  <2>1. OwnCall = Completed(view)
    BY <1>2 DEF OwnCall
  <2>. QED
    BY <1>2, <2>1 DEF IInv, TypeOK, PhaseInv, Views, Completed
<1>3. CASE main = "Terminating"
  <2>1. OwnCall = Terminated(view)
    BY <1>3 DEF OwnCall
  <2>. QED
    BY <1>3, <2>1 DEF IInv, TypeOK, PhaseInv, Views, Terminated
<1>. QED
  BY <1>1, <1>2, <1>3

LEMMA AdmitInv == ASSUME IInv, NEW i \in Trials, Admit(i) PROVE IInv'
<1>1. TypeOK'
  BY DEF IInv, TypeOK, Views, Causes, Results, Admit, Go
<1>2. \A j \in Trials : TrialInv(j)'
  BY <1>1 DEF IInv, TypeOK, Views, TrialInv, PhaseInv, Outcomes, Admit, Go
<1>3. PhaseInv'
  BY <1>1, EvaluationAssumption DEF IInv, TypeOK, Views, TrialInv, PhaseInv, ObserverInv, CauseInv, Causes, Admit, Go
<1>4. ObserverInv'
  BY <1>1 DEF IInv, TypeOK, PhaseInv, ObserverInv, Admit, Go
<1>5. CauseInv'
  BY <1>1, EvaluationAssumption DEF IInv, TypeOK, PhaseInv, ObserverInv, CauseInv, Causes, Admit, Go
<1>6. CardInv'
  BY <1>1, ActiveGrows DEF IInv, TypeOK, Active, Admit, Go
<1>. QED
  BY <1>1, <1>2, <1>3, <1>4, <1>5, <1>6 DEF IInv

LEMMA ObserveInv == ASSUME IInv, NEW i \in Trials, Observe(i) PROVE IInv'
<1>1. TypeOK'
  BY DEF IInv, TypeOK, Views, Causes, Results, Observe, Free, Observing, Go
<1>2. \A j \in Trials : TrialInv(j)'
  BY <1>1 DEF IInv, TypeOK, Views, TrialInv, PhaseInv, Outcomes, Observe, Free, Observing, Go
<1>3. PhaseInv'
  BY <1>1, EvaluationAssumption DEF IInv, TypeOK, Views, TrialInv, PhaseInv, ObserverInv, CauseInv, Causes, Observe, Free, Observing, Go
<1>4. ObserverInv'
  BY <1>1 DEF IInv, TypeOK, PhaseInv, ObserverInv, Observe, Free, Observing, Go
<1>5. CauseInv'
  BY <1>1, EvaluationAssumption DEF IInv, TypeOK, PhaseInv, ObserverInv, CauseInv, Causes, Observe, Free, Observing, Go
<1>6. CardInv'
  BY <1>1, ActiveKept DEF IInv, TypeOK, Active, Observe, Free, Observing, Go
<1>. QED
  BY <1>1, <1>2, <1>3, <1>4, <1>5, <1>6 DEF IInv

LEMMA AcknowledgedInv == ASSUME IInv, NEW i \in Trials, Acknowledged(i) PROVE IInv'
<1>1. TypeOK'
  BY ToldRetained DEF IInv, TypeOK, Views, Causes, Results, Acknowledged, Go
<1>2. \A j \in Trials : TrialInv(j)'
  BY ToldKeeps DEF Acknowledged
<1>3. PhaseInv'
  <2>1. view'.status = "Planned" /\ view'.cause = view.cause /\ DOMAIN view'.trials = Trials
    BY ToldKeeps DEF Acknowledged
  <2>2. view.status = "Planned"
    BY ToldRetained DEF Acknowledged
  <2>. QED
    BY <1>1, <2>1, <2>2, EvaluationAssumption
    DEF IInv, TypeOK, PhaseInv, Acknowledged, Go
<1>4. ObserverInv'
  BY <1>1 DEF IInv, TypeOK, PhaseInv, ObserverInv, Acknowledged, Go
<1>5. CauseInv'
  BY <1>1, EvaluationAssumption DEF IInv, TypeOK, PhaseInv, ObserverInv, CauseInv, Causes, Acknowledged, Go
<1>6. CardInv'
  BY <1>1, ActiveKept DEF IInv, TypeOK, Active, Acknowledged, Go
<1>. QED
  BY <1>1, <1>2, <1>3, <1>4, <1>5, <1>6 DEF IInv

LEMMA RefuseInv == ASSUME IInv, NEW i \in Trials, Refuse(i) PROVE IInv'
<1>1. TypeOK'
  BY ToldRetained DEF IInv, TypeOK, Views, Causes, Results, Refuse, Go, Lose
<1>2. \A j \in Trials : TrialInv(j)'
  BY ToldKeeps DEF Refuse, Lose
<1>3. PhaseInv'
  <2>1. view'.status = "Planned" /\ view'.cause = view.cause /\ DOMAIN view'.trials = Trials
    BY ToldKeeps DEF Refuse, Lose
  <2>2. view.status = "Planned"
    BY ToldRetained DEF Refuse
  <2>. QED
    BY <1>1, <2>1, <2>2, EvaluationAssumption
    DEF IInv, TypeOK, PhaseInv, Refuse, Go, Lose
<1>4. ObserverInv'
  BY <1>1 DEF IInv, TypeOK, PhaseInv, ObserverInv, Refuse, Go, Lose
<1>5. CauseInv'
  BY <1>1, EvaluationAssumption DEF IInv, TypeOK, PhaseInv, ObserverInv, CauseInv, Causes, Refuse, Go, Lose
<1>6. CardInv'
  BY <1>1, ActiveKept DEF IInv, TypeOK, Active, Refuse, Go, Lose
<1>. QED
  BY <1>1, <1>2, <1>3, <1>4, <1>5, <1>6 DEF IInv

LEMMA CloseInv == ASSUME IInv, NEW i \in Trials, Close(i) PROVE IInv'
<1>1. TypeOK'
  BY DEF IInv, TypeOK, Views, Causes, Results, Close, Go
<1>2. \A j \in Trials : TrialInv(j)'
  BY <1>1 DEF IInv, TypeOK, Views, TrialInv, PhaseInv, Outcomes, Close, Go
<1>3. PhaseInv'
  BY <1>1, EvaluationAssumption DEF IInv, TypeOK, Views, TrialInv, PhaseInv, ObserverInv, CauseInv, Causes, Close, Go
<1>4. ObserverInv'
  BY <1>1 DEF IInv, TypeOK, PhaseInv, ObserverInv, Close, Go
<1>5. CauseInv'
  BY <1>1, EvaluationAssumption DEF IInv, TypeOK, PhaseInv, ObserverInv, CauseInv, Causes, Close, Go
<1>6. CardInv'
  BY <1>1, ActiveKept DEF IInv, TypeOK, Active, Close, Go
<1>. QED
  BY <1>1, <1>2, <1>3, <1>4, <1>5, <1>6 DEF IInv

LEMMA BeginInv == ASSUME IInv, NEW i \in Trials, Begin(i) PROVE IInv'
<1>1. TypeOK'
  BY DEF IInv, TypeOK, Views, Causes, Results, Begin, Go
<1>2. \A j \in Trials : TrialInv(j)'
  BY <1>1 DEF IInv, TypeOK, Views, TrialInv, PhaseInv, Outcomes, Begin, Go
<1>3. PhaseInv'
  BY <1>1, EvaluationAssumption DEF IInv, TypeOK, Views, TrialInv, PhaseInv, ObserverInv, CauseInv, Causes, Begin, Go
<1>4. ObserverInv'
  BY <1>1 DEF IInv, TypeOK, PhaseInv, ObserverInv, Begin, Go
<1>5. CauseInv'
  BY <1>1, EvaluationAssumption DEF IInv, TypeOK, PhaseInv, ObserverInv, CauseInv, Causes, Begin, Go
<1>6. CardInv'
  BY <1>1, ActiveKept DEF IInv, TypeOK, Active, Begin, Go
<1>. QED
  BY <1>1, <1>2, <1>3, <1>4, <1>5, <1>6 DEF IInv

LEMMA EndsItselfInv == ASSUME IInv, NEW i \in Trials, EndsItself(i) PROVE IInv'
<1>1. TypeOK'
  BY DEF IInv, TypeOK, Views, Causes, Results, EndsItself, Cut, First, Go
<1>2. \A j \in Trials : TrialInv(j)'
  BY <1>1 DEF IInv, TypeOK, Views, TrialInv, PhaseInv, Outcomes, EndsItself, Cut, First, Go
<1>3. PhaseInv'
  BY <1>1, EvaluationAssumption DEF IInv, TypeOK, Views, TrialInv, PhaseInv, ObserverInv, CauseInv, Causes, EndsItself, Cut, First, Go
<1>4. ObserverInv'
  BY <1>1 DEF IInv, TypeOK, PhaseInv, ObserverInv, EndsItself, Cut, First, Go
<1>5. CauseInv'
  BY <1>1, EvaluationAssumption DEF IInv, TypeOK, PhaseInv, ObserverInv, CauseInv, Causes, EndsItself, Cut, First, Go
<1>6. CardInv'
  BY <1>1, ActiveKept DEF IInv, TypeOK, Active, EndsItself, Cut, First, Go
<1>. QED
  BY <1>1, <1>2, <1>3, <1>4, <1>5, <1>6 DEF IInv

LEMMA EvaluatedInv == ASSUME IInv, NEW i \in Trials, Evaluated(i) PROVE IInv'
<1>1. TypeOK'
  BY DEF IInv, TypeOK, Views, Causes, Results, Evaluated, Go
<1>2. \A j \in Trials : TrialInv(j)'
  BY <1>1 DEF IInv, TypeOK, Views, TrialInv, PhaseInv, Outcomes, Evaluated, Go
<1>3. PhaseInv'
  BY <1>1, EvaluationAssumption DEF IInv, TypeOK, Views, TrialInv, PhaseInv, ObserverInv, CauseInv, Causes, Evaluated, Go
<1>4. ObserverInv'
  BY <1>1 DEF IInv, TypeOK, PhaseInv, ObserverInv, Evaluated, Go
<1>5. CauseInv'
  BY <1>1, EvaluationAssumption DEF IInv, TypeOK, PhaseInv, ObserverInv, CauseInv, Causes, Evaluated, Go
<1>6. CardInv'
  BY <1>1, ActiveKept DEF IInv, TypeOK, Active, Evaluated, Go
<1>. QED
  BY <1>1, <1>2, <1>3, <1>4, <1>5, <1>6 DEF IInv

LEMMA DieInv == ASSUME IInv, NEW i \in Trials, Die(i) PROVE IInv'
<1>1. TypeOK'
  BY DEF IInv, TypeOK, Views, Causes, Results, Die, Cut, First, Go
<1>2. \A j \in Trials : TrialInv(j)'
  BY <1>1 DEF IInv, TypeOK, Views, TrialInv, PhaseInv, Outcomes, Die, Cut, First, Go
<1>3. PhaseInv'
  BY <1>1, EvaluationAssumption DEF IInv, TypeOK, Views, TrialInv, PhaseInv, ObserverInv, CauseInv, Causes, Die, Cut, First, Go
<1>4. ObserverInv'
  BY <1>1 DEF IInv, TypeOK, PhaseInv, ObserverInv, Die, Cut, First, Go
<1>5. CauseInv'
  BY <1>1, EvaluationAssumption DEF IInv, TypeOK, PhaseInv, ObserverInv, CauseInv, Causes, Die, Cut, First, Go
<1>6. CardInv'
  BY <1>1, ActiveKept DEF IInv, TypeOK, Active, Die, Cut, First, Go
<1>. QED
  BY <1>1, <1>2, <1>3, <1>4, <1>5, <1>6 DEF IInv

LEMMA FailInv == ASSUME IInv, NEW i \in Trials, Fail(i) PROVE IInv'
<1>1. TypeOK'
  BY DEF IInv, TypeOK, Views, Causes, Results, Fail, Go
<1>2. \A j \in Trials : TrialInv(j)'
  BY <1>1 DEF IInv, TypeOK, Views, TrialInv, PhaseInv, Outcomes, Fail, Go
<1>3. PhaseInv'
  BY <1>1, EvaluationAssumption DEF IInv, TypeOK, Views, TrialInv, PhaseInv, ObserverInv, CauseInv, Causes, Fail, Go
<1>4. ObserverInv'
  BY <1>1 DEF IInv, TypeOK, PhaseInv, ObserverInv, Fail, Go
<1>5. CauseInv'
  BY <1>1, EvaluationAssumption DEF IInv, TypeOK, PhaseInv, ObserverInv, CauseInv, Causes, Fail, Go
<1>6. CardInv'
  BY <1>1, ActiveKept DEF IInv, TypeOK, Active, Fail, Go
<1>. QED
  BY <1>1, <1>2, <1>3, <1>4, <1>5, <1>6 DEF IInv

LEMMA CutWaitingInv == ASSUME IInv, NEW i \in Trials, CutWaiting(i) PROVE IInv'
<1>1. TypeOK'
  BY DEF IInv, TypeOK, Views, Causes, Results, CutWaiting, Go
<1>2. \A j \in Trials : TrialInv(j)'
  BY <1>1 DEF IInv, TypeOK, Views, TrialInv, PhaseInv, Outcomes, CutWaiting, Go
<1>3. PhaseInv'
  BY <1>1, EvaluationAssumption DEF IInv, TypeOK, Views, TrialInv, PhaseInv, ObserverInv, CauseInv, Causes, CutWaiting, Go
<1>4. ObserverInv'
  BY <1>1 DEF IInv, TypeOK, PhaseInv, ObserverInv, CutWaiting, Go
<1>5. CauseInv'
  BY <1>1, EvaluationAssumption DEF IInv, TypeOK, PhaseInv, ObserverInv, CauseInv, Causes, CutWaiting, Go
<1>6. CardInv'
  BY <1>1, ActiveKept DEF IInv, TypeOK, Active, CutWaiting, Go
<1>. QED
  BY <1>1, <1>2, <1>3, <1>4, <1>5, <1>6 DEF IInv

LEMMA CutEvaluatingInv == ASSUME IInv, NEW i \in Trials, CutEvaluating(i) PROVE IInv'
<1>1. TypeOK'
  BY DEF IInv, TypeOK, Views, Causes, Results, CutEvaluating, Cut, First, Go
<1>2. \A j \in Trials : TrialInv(j)'
  BY <1>1 DEF IInv, TypeOK, Views, TrialInv, PhaseInv, Outcomes, CutEvaluating, Cut, First, Go
<1>3. PhaseInv'
  BY <1>1, EvaluationAssumption DEF IInv, TypeOK, Views, TrialInv, PhaseInv, ObserverInv, CauseInv, Causes, CutEvaluating, Cut, First, Go
<1>4. ObserverInv'
  BY <1>1 DEF IInv, TypeOK, PhaseInv, ObserverInv, CutEvaluating, Cut, First, Go
<1>5. CauseInv'
  BY <1>1, EvaluationAssumption DEF IInv, TypeOK, PhaseInv, ObserverInv, CauseInv, Causes, CutEvaluating, Cut, First, Go
<1>6. CardInv'
  BY <1>1, ActiveKept DEF IInv, TypeOK, Active, CutEvaluating, Cut, First, Go
<1>. QED
  BY <1>1, <1>2, <1>3, <1>4, <1>5, <1>6 DEF IInv

LEMMA CutObservingInv == ASSUME IInv, NEW i \in Trials, CutObserving(i) PROVE IInv'
<1>1. TypeOK'
  BY ToldRetained DEF IInv, TypeOK, Views, Causes, Results, CutObserving, Go, Lose
<1>2. \A j \in Trials : TrialInv(j)'
  BY ToldKeeps DEF CutObserving, Lose
<1>3. PhaseInv'
  <2>1. view'.status = "Planned" /\ view'.cause = view.cause /\ DOMAIN view'.trials = Trials
    BY ToldKeeps DEF CutObserving, Lose
  <2>2. view.status = "Planned"
    BY ToldRetained DEF CutObserving
  <2>. QED
    BY <1>1, <2>1, <2>2, EvaluationAssumption
    DEF IInv, TypeOK, PhaseInv, CutObserving, Go, Lose
<1>4. ObserverInv'
  BY <1>1 DEF IInv, TypeOK, PhaseInv, ObserverInv, CutObserving, Go, Lose
<1>5. CauseInv'
  BY <1>1, EvaluationAssumption DEF IInv, TypeOK, PhaseInv, ObserverInv, CauseInv, Causes, CutObserving, Go, Lose
<1>6. CardInv'
  BY <1>1, ActiveKept DEF IInv, TypeOK, Active, CutObserving, Go, Lose
<1>. QED
  BY <1>1, <1>2, <1>3, <1>4, <1>5, <1>6 DEF IInv

LEMMA PlanAcknowledgedInv == ASSUME IInv, PlanAcknowledged PROVE IInv'
<1>1. TypeOK'
  BY DEF IInv, TypeOK, Views, Causes, Results, PlanAcknowledged, Planned
<1>2. \A j \in Trials : TrialInv(j)'
  BY <1>1 DEF IInv, TypeOK, Views, TrialInv, PhaseInv, Outcomes, PlanAcknowledged, Planned
<1>3. PhaseInv'
  BY <1>1, EvaluationAssumption DEF IInv, TypeOK, Views, TrialInv, PhaseInv, ObserverInv, CauseInv, Causes, PlanAcknowledged, Planned
<1>4. ObserverInv'
  BY <1>1 DEF IInv, TypeOK, PhaseInv, ObserverInv, PlanAcknowledged, Planned
<1>5. CauseInv'
  BY <1>1, EvaluationAssumption DEF IInv, TypeOK, PhaseInv, ObserverInv, CauseInv, Causes, PlanAcknowledged, Planned
<1>6. CardInv'
  BY <1>1, ActiveKept DEF IInv, TypeOK, Active, PlanAcknowledged, Planned
<1>. QED
  BY <1>1, <1>2, <1>3, <1>4, <1>5, <1>6 DEF IInv

LEMMA AnnounceCompletedInv == ASSUME IInv, AnnounceCompleted PROVE IInv'
<1>1. TypeOK'
  BY DEF IInv, TypeOK, Views, Causes, Results, AnnounceCompleted
<1>2. \A j \in Trials : TrialInv(j)'
  BY <1>1 DEF IInv, TypeOK, Views, TrialInv, PhaseInv, Outcomes, AnnounceCompleted
<1>3. PhaseInv'
  BY <1>1, EvaluationAssumption DEF IInv, TypeOK, Views, TrialInv, PhaseInv, ObserverInv, CauseInv, Causes, AnnounceCompleted
<1>4. ObserverInv'
  BY <1>1 DEF IInv, TypeOK, PhaseInv, ObserverInv, AnnounceCompleted
<1>5. CauseInv'
  BY <1>1, EvaluationAssumption DEF IInv, TypeOK, PhaseInv, ObserverInv, CauseInv, Causes, AnnounceCompleted
<1>6. CardInv'
  BY <1>1, ActiveKept DEF IInv, TypeOK, Active, AnnounceCompleted
<1>. QED
  BY <1>1, <1>2, <1>3, <1>4, <1>5, <1>6 DEF IInv

LEMMA CompletedAcknowledgedInv == ASSUME IInv, CompletedAcknowledged PROVE IInv'
<1>1. TypeOK'
  BY DEF IInv, TypeOK, Views, Causes, Results, CompletedAcknowledged, Completed, End
<1>2. \A j \in Trials : TrialInv(j)'
  BY <1>1 DEF IInv, TypeOK, Views, TrialInv, PhaseInv, Outcomes, CompletedAcknowledged, Completed, End
<1>3. PhaseInv'
  BY <1>1, EvaluationAssumption DEF IInv, TypeOK, Views, TrialInv, PhaseInv, ObserverInv, CauseInv, Causes, CompletedAcknowledged, Completed, End
<1>4. ObserverInv'
  BY <1>1 DEF IInv, TypeOK, PhaseInv, ObserverInv, CompletedAcknowledged, Completed, End
<1>5. CauseInv'
  BY <1>1, EvaluationAssumption DEF IInv, TypeOK, PhaseInv, ObserverInv, CauseInv, Causes, CompletedAcknowledged, Completed, End
<1>6. CardInv'
  BY <1>1, ActiveKept DEF IInv, TypeOK, Active, CompletedAcknowledged, Completed, End
<1>. QED
  BY <1>1, <1>2, <1>3, <1>4, <1>5, <1>6 DEF IInv

LEMMA LoseOwnInv == ASSUME IInv, LoseOwn, interrupted' \in BOOLEAN PROVE IInv'
<1>1. TypeOK'
  BY OwnRetained DEF IInv, TypeOK, Views, Causes, Results, LoseOwn, Lose, End
<1>2. \A j \in Trials : TrialInv(j)'
  BY <1>1, OwnRetained DEF IInv, TypeOK, Views, TrialInv, PhaseInv, Outcomes, LoseOwn, Lose, End
<1>3. PhaseInv'
  BY <1>1, EvaluationAssumption, OwnRetained DEF IInv, TypeOK, Views, TrialInv, PhaseInv, ObserverInv, CauseInv, Causes, LoseOwn, Lose, End
<1>4. ObserverInv'
  BY <1>1 DEF IInv, TypeOK, PhaseInv, ObserverInv, LoseOwn, Lose, End
<1>5. CauseInv'
  BY <1>1, EvaluationAssumption DEF IInv, TypeOK, PhaseInv, ObserverInv, CauseInv, Causes, LoseOwn, Lose, End
<1>6. CardInv'
  BY <1>1, ActiveKept DEF IInv, TypeOK, Active, LoseOwn, Lose, End
<1>. QED
  BY <1>1, <1>2, <1>3, <1>4, <1>5, <1>6 DEF IInv

LEMMA DrainedInv == ASSUME IInv, Drained PROVE IInv'
<1>1. TypeOK'
  BY DEF IInv, TypeOK, Views, Causes, Results, Drained, Reportable, Active, End
<1>2. \A j \in Trials : TrialInv(j)'
  BY <1>1 DEF IInv, TypeOK, Views, TrialInv, PhaseInv, Outcomes, Drained, Reportable, Active, End
<1>3. PhaseInv'
  BY <1>1, EvaluationAssumption DEF IInv, TypeOK, Views, TrialInv, PhaseInv, ObserverInv, CauseInv, Causes, Drained, Reportable, Active, End
<1>4. ObserverInv'
  BY <1>1 DEF IInv, TypeOK, PhaseInv, ObserverInv, Drained, Reportable, Active, End
<1>5. CauseInv'
  BY <1>1, EvaluationAssumption DEF IInv, TypeOK, PhaseInv, ObserverInv, CauseInv, Causes, Drained, Reportable, Active, End
<1>6. CardInv'
  BY <1>1, ActiveKept DEF IInv, TypeOK, Active, Drained, Reportable, Active, End
<1>. QED
  BY <1>1, <1>2, <1>3, <1>4, <1>5, <1>6 DEF IInv

LEMMA TerminatedAcknowledgedInv == ASSUME IInv, TerminatedAcknowledged PROVE IInv'
<1>1. TypeOK'
  BY DEF IInv, TypeOK, Views, Causes, Results, TerminatedAcknowledged, Terminated, End
<1>2. \A j \in Trials : TrialInv(j)'
  BY <1>1 DEF IInv, TypeOK, Views, TrialInv, PhaseInv, Outcomes, TerminatedAcknowledged, Terminated, End
<1>3. PhaseInv'
  BY <1>1, EvaluationAssumption DEF IInv, TypeOK, Views, TrialInv, PhaseInv, ObserverInv, CauseInv, Causes, TerminatedAcknowledged, Terminated, End
<1>4. ObserverInv'
  BY <1>1 DEF IInv, TypeOK, PhaseInv, ObserverInv, TerminatedAcknowledged, Terminated, End
<1>5. CauseInv'
  BY <1>1, EvaluationAssumption DEF IInv, TypeOK, PhaseInv, ObserverInv, CauseInv, Causes, TerminatedAcknowledged, Terminated, End
<1>6. CardInv'
  BY <1>1, ActiveKept DEF IInv, TypeOK, Active, TerminatedAcknowledged, Terminated, End
<1>. QED
  BY <1>1, <1>2, <1>3, <1>4, <1>5, <1>6 DEF IInv

LEMMA NoteInterruptedInv == ASSUME IInv, NEW i \in Trials, NoteInterrupted(i) PROVE IInv'
<1>1. TypeOK'
  BY DEF IInv, TypeOK, Views, Causes, Results, NoteInterrupted, TrialInterrupted
<1>2. \A j \in Trials : TrialInv(j)'
  BY <1>1 DEF IInv, TypeOK, Views, TrialInv, PhaseInv, Outcomes, NoteInterrupted, TrialInterrupted
<1>3. PhaseInv'
  BY <1>1, EvaluationAssumption DEF IInv, TypeOK, Views, TrialInv, PhaseInv, ObserverInv, CauseInv, Causes, NoteInterrupted, TrialInterrupted
<1>4. ObserverInv'
  BY <1>1 DEF IInv, TypeOK, PhaseInv, ObserverInv, NoteInterrupted, TrialInterrupted
<1>5. CauseInv'
  BY <1>1, EvaluationAssumption DEF IInv, TypeOK, PhaseInv, ObserverInv, CauseInv, Causes, NoteInterrupted, TrialInterrupted
<1>6. CardInv'
  BY <1>1, ActiveKept DEF IInv, TypeOK, Active, NoteInterrupted, TrialInterrupted
<1>. QED
  BY <1>1, <1>2, <1>3, <1>4, <1>5, <1>6 DEF IInv

LEMMA InterruptInv == ASSUME IInv, Interrupt PROVE IInv'
<1>1. CASE LoseOwn /\ interrupted' = TRUE
  BY <1>1, LoseOwnInv
<1>2. CASE /\ main \in {"Running", "Draining"} /\ main' = "Draining" /\ interrupted' = TRUE
           /\ UNCHANGED <<pc, outcome, closed, termination, lost, view, result>>
  <2>1. TypeOK'
    BY <1>2 DEF IInv, TypeOK, Views
  <2>2. \A j \in Trials : TrialInv(j)'
    BY <1>2 DEF IInv, TrialInv
  <2>3. PhaseInv' /\ ObserverInv' /\ CauseInv'
    BY <1>2 DEF IInv, TypeOK, PhaseInv, ObserverInv, CauseInv
  <2>4. CardInv'
    BY <1>2, ActiveKept DEF Active
  <2>. QED
    BY <2>1, <2>2, <2>3, <2>4 DEF IInv
<1>. QED
  BY <1>1, <1>2 DEF Interrupt

LEMMA InitInv == ASSUME Init PROVE IInv
<1>1. TypeOK
  BY DEF Init, TypeOK, Views, Empty
<1>2. \A i \in Trials : TrialInv(i)
  BY DEF Init, TrialInv, Empty
<1>3. PhaseInv
  BY EvaluationAssumption DEF Init, PhaseInv, Empty, Results
<1>4. ObserverInv /\ CauseInv
  BY DEF Init, ObserverInv, CauseInv
<1>5. CardInv
  <2>1. Active = {}
    BY DEF Init, Active
  <2>. QED
    BY <2>1, FS_EmptySet, EvaluationAssumption DEF CardInv
<1>. QED
  BY <1>1, <1>2, <1>3, <1>4, <1>5 DEF IInv

LEMMA NextInv == IInv /\ [Next]_vars => IInv'
<1>. SUFFICES ASSUME IInv, [Next]_vars PROVE IInv'
  OBVIOUS
<1>1. CASE Main
  BY <1>1, PlanAcknowledgedInv, AnnounceCompletedInv, CompletedAcknowledgedInv, LoseOwnInv,
     DrainedInv, TerminatedAcknowledgedInv DEF Main, OwnRefused, IInv, TypeOK
<1>2. CASE Interrupt
  BY <1>2, InterruptInv
<1>3. ASSUME NEW i \in Trials, Trial(i) PROVE IInv'
  BY <1>3, AdmitInv, ObserveInv, AcknowledgedInv, RefuseInv, CloseInv, BeginInv, EndsItselfInv,
     EvaluatedInv, DieInv, FailInv, CutWaitingInv, CutEvaluatingInv, CutObservingInv DEF Trial
<1>4. ASSUME NEW i \in Trials, NoteInterrupted(i) PROVE IInv'
  BY <1>4, NoteInterruptedInv
<1>5. CASE UNCHANGED vars
  <2>1. TypeOK' /\ PhaseInv' /\ ObserverInv' /\ CauseInv'
    BY <1>5 DEF vars, IInv, TypeOK, PhaseInv, ObserverInv, CauseInv
  <2>2. \A i \in Trials : TrialInv(i)'
    BY <1>5 DEF vars, IInv, TrialInv
  <2>3. CardInv'
    BY <1>5, ActiveKept DEF vars, Active
  <2>. QED
    BY <2>1, <2>2, <2>3 DEF IInv
<1>. QED
  BY <1>1, <1>2, <1>3, <1>4, <1>5 DEF Next

(* The invariant holds in every reachable state of a run                     *)
(* (Evaluation.ts:269-353).                                                  *)
THEOREM InvariantHolds == Spec => []IInv
<1>. QED
  BY InitInv, NextInv, PTL DEF Spec

-------------------------------------------------------------------------------
(* Every variable has its type (Evaluation.ts:304-308).                      *)
THEOREM TypesHold == Spec => []TypeOK
<1>1. IInv => TypeOK
  BY DEF IInv
<1>. QED
  BY <1>1, InvariantHolds, PTL

(* For any number of inputs and any concurrency, what the observer retained  *)
(* is true of the trials (Evaluation.ts:276-278, 321-329).                   *)
THEOREM ViewIsTruthful == Spec => []ViewTruthful
<1>1. IInv => ViewTruthful
  <2>. SUFFICES ASSUME IInv PROVE ViewTruthful
    OBVIOUS
  <2>1. CASE view.status = "Unplanned"
    BY <2>1 DEF IInv, PhaseInv, Empty, ViewTruthful
  <2>2. CASE view.status # "Unplanned"
    <3>1. DOMAIN view.trials = Trials
      BY <2>2 DEF IInv, PhaseInv
    <3>. QED
      BY <2>2, <3>1 DEF IInv, TrialInv, ViewTruthful
  <2>. QED
    BY <2>1, <2>2
<1>. QED
  BY <1>1, InvariantHolds, PTL

(* For any number of inputs and any concurrency, the result of a run agrees  *)
(* with the view (Evaluation.ts:326-328, 332-350).                           *)
THEOREM ResultAgreesWithView == Spec => []ResultMatchesView
<1>1. IInv => ResultMatchesView
  <2>. SUFFICES ASSUME IInv PROVE ResultMatchesView
    OBVIOUS
  <2>1. ASSUME result = "Succeeded"
        PROVE  view.status = "Completed" /\ \A i \in Trials : view.trials[i] = outcome[i]
    BY <2>1 DEF IInv, PhaseInv, TrialInv
  <2>2. view.status = "Terminated" => view.cause # None
    BY DEF IInv, PhaseInv
  <2>3. view.cause # None => view.cause.kind = "Defect"
    BY DEF IInv, PhaseInv
  <2>4. result = "Died" /\ ~lost /\ ~interrupted => view.status = "Terminated"
    BY DEF IInv, PhaseInv
  <2>. QED
    BY <2>1, <2>2, <2>3, <2>4 DEF ResultMatchesView
<1>. QED
  BY <1>1, InvariantHolds, PTL

(* For any number of inputs and any concurrency, no more trials are under    *)
(* way than may be, and none after the run (Evaluation.ts:279-281).          *)
THEOREM NothingIsLeftRunning == Spec => []NothingLeftRunning
<1>1. IInv => NothingLeftRunning
  BY DEF IInv, CardInv, PhaseInv, Active, NothingLeftRunning
<1>. QED
  BY <1>1, InvariantHolds, PTL

(* Whatever the other trials go through, an evaluator is called only after   *)
(* its start was retained, and after a lost observation only until the trial *)
(* that lost it has closed admission; that the permit cannot be free before  *)
(* is ObserverInv (Evaluation.ts:277, 279-281, 310-315, 325).                *)
THEOREM ClosesAdmissionFirst == Spec => AdmissionClosedFirst
<1>. DEFINE Step == \A i \in Trials : pc'[i] = "Evaluating" /\ pc[i] # "Evaluating" =>
                      /\ view.trials[i] = "Unresolved"
                      /\ lost => \E j \in Trials : pc[j] = "Refused"
<1>1. IInv /\ [Next]_vars => [Step]_vars
  <2>. SUFFICES ASSUME IInv, Next PROVE Step
    OBVIOUS
  <2>1. ASSUME NEW i \in Trials, Begin(i)
        PROVE  view.trials[i] = "Unresolved" /\ (lost => \E j \in Trials : pc[j] = "Refused")
    <3>1. pc[i] = "Started" /\ main = "Running" /\ ~closed
      BY <2>1 DEF Begin
    <3>2. view.status # "Unplanned"
      BY <3>1 DEF IInv, PhaseInv
    <3>3. view.trials[i] = "Unresolved"
      BY <3>1, <3>2 DEF IInv, TrialInv
    <3>. QED
      BY <3>1, <3>3 DEF IInv, ObserverInv
  <2>2. ASSUME NEW j \in Trials, Trial(j),
               NEW i \in Trials, pc'[i] = "Evaluating", pc[i] # "Evaluating"
        PROVE  Begin(i)
    BY <2>2
    DEF IInv, TypeOK, Trial, Admit, Observe, Acknowledged, Refuse, Close, Begin, EndsItself,
        Evaluated, Die, Fail, CutWaiting, CutEvaluating, CutObserving, Go
  <2>3. CASE Main \/ Interrupt \/ \E j \in Trials : NoteInterrupted(j)
    BY <2>3 DEF Main, PlanAcknowledged, AnnounceCompleted, CompletedAcknowledged, OwnRefused,
        LoseOwn, Drained, TerminatedAcknowledged, Interrupt, NoteInterrupted
  <2>. QED
    BY <2>1, <2>2, <2>3 DEF Next
<1>. QED
  BY <1>1, InvariantHolds, PTL DEF Spec, AdmissionClosedFirst

(* An observer that left a call unacknowledged is closed, or about to be by  *)
(* the trial that holds the permit, so nothing reaches it                    *)
(* (Evaluation.ts:279-281, 310-315, 336).                                    *)
THEOREM LostIsLeftAlone == Spec => LostObserverLeftAlone
<1>. DEFINE Step ==
       lost /\ main # "Ended" =>
         /\ view' = view
         /\ \A i \in Trials : pc'[i] \in {"Starting", "Settling"} => pc'[i] = pc[i]
         /\ main' = "Terminating" => main = "Terminating"
<1>1. IInv /\ [Next]_vars => [Step]_vars
  <2>. SUFFICES ASSUME IInv, Next, lost, main # "Ended" PROVE Step
    OBVIOUS
  <2>1. /\ main \in {"Running", "Draining"}
        /\ \A i \in Trials : pc[i] \notin {"Starting", "Settling"}
        /\ closed \/ Observing # {}
    BY DEF IInv, TypeOK, PhaseInv, ObserverInv, Observing
  <2>2. ASSUME NEW j \in Trials, Trial(j) PROVE Step
    BY <2>1, <2>2
    DEF IInv, TypeOK, Trial, Admit, Observe, Free, Acknowledged, Refuse, Close, Begin,
        EndsItself, Evaluated, Die, Fail, CutWaiting, CutEvaluating, CutObserving, Go
  <2>3. CASE Drained
    <3>1. ~Reportable
      BY <2>1, <2>3 DEF Drained, Reportable, Active, Observing
    <3>. QED
      BY <2>3, <3>1 DEF Drained, End
  <2>4. CASE Main /\ ~Drained
    BY <2>1, <2>4 DEF Main, PlanAcknowledged, AnnounceCompleted, CompletedAcknowledged,
        OwnRefused, LoseOwn, TerminatedAcknowledged
  <2>5. CASE Interrupt \/ \E j \in Trials : NoteInterrupted(j)
    BY <2>1, <2>5 DEF Interrupt, LoseOwn, NoteInterrupted
  <2>. QED
    BY <2>2, <2>3, <2>4, <2>5 DEF Next
<1>. QED
  BY <1>1, InvariantHolds, PTL DEF Spec, LostObserverLeftAlone

(* An observation under way is a start or a settlement of EvaluationView.    *)
LEMMA ToldStep ==
  ASSUME IInv, NEW i \in Trials, pc[i] \in {"Starting", "Settling"},
         main \in {"Running", "Draining"}, view' \in {view, Told(i)}
  PROVE  [View!Next]_(View!vars)
<1>1. view' = view \/ view' = Told(i)
  OBVIOUS
<1>2. CASE view' = view
  BY <1>2 DEF View!vars
<1>3. CASE view' = Told(i) /\ pc[i] = "Starting"
  <2>1. View!Start(i)
    BY <1>3, ToldRetained DEF IInv, TrialInv, View!Start
  <2>. QED
    BY <2>1 DEF View!Next, View!Trials, Trials
<1>4. CASE view' = Told(i) /\ pc[i] = "Settling"
  <2>1. outcome[i] \in Outcomes /\ View!Settle(i, outcome[i])
    BY <1>4, ToldRetained DEF IInv, TrialInv, View!Settle
  <2>. QED
    BY <2>1 DEF View!Next, View!Trials, Trials
<1>. QED
  BY <1>1, <1>2, <1>3, <1>4

(* A call of the run itself plans, completes or terminates the view.         *)
LEMMA OwnStep ==
  ASSUME IInv, main \in {"Planning", "Completing", "Terminating"}, view' \in {view, OwnCall}
  PROVE  [View!Next]_(View!vars)
<1>1. CASE view' = view
  BY <1>1 DEF View!vars
<1>2. CASE view' = OwnCall /\ main = "Planning"
  <2>1. view' = Planned(view) /\ view = Empty
    BY <1>2 DEF OwnCall, IInv, PhaseInv
  <2>2. View!Plan
    BY <2>1 DEF Planned, Empty, View!Plan, View!Trials, Trials
  <2>. QED
    BY <2>2 DEF View!Next
<1>3. CASE view' = OwnCall /\ main = "Completing"
  <2>1. \A i \in Trials : view.trials[i] \in Outcomes
    BY <1>3, OwnRetained DEF IInv, PhaseInv, TrialInv
  <2>2. View!Complete
    BY <1>3, <2>1, OwnRetained DEF View!Complete, View!Trials, Trials
  <2>. QED
    BY <2>2 DEF View!Next
<1>4. CASE view' = OwnCall /\ main = "Terminating"
  <2>1. termination \in Causes
    BY <1>4 DEF IInv, TypeOK, PhaseInv
  <2>2. View!Terminate(termination)
    BY <1>4, OwnRetained DEF View!Terminate
  <2>. QED
    BY <2>1, <2>2 DEF View!Next
<1>. QED
  BY <1>1, <1>2, <1>3, <1>4

LEMMA NoteStep ==
  ASSUME IInv, NEW i \in Trials, NoteInterrupted(i)
  PROVE  [View!Next]_(View!vars)
<1>1. /\ view.status # "Unplanned" /\ view' = TrialInterrupted(view, i)
      /\ DOMAIN view.trials = Trials /\ view \in Views
  BY DEF NoteInterrupted, IInv, TypeOK, PhaseInv
<1>2. CASE view.trials[i] = "Unresolved"
  <2>1. View!NoteInterrupted(i)
    BY <1>1, <1>2 DEF TrialInterrupted, Views, View!NoteInterrupted
  <2>. QED
    BY <2>1 DEF View!Next, View!Trials, Trials
<1>3. CASE view.trials[i] # "Unresolved"
  <2>1. view' = view
    BY <1>1, <1>3 DEF TrialInterrupted, Views
  <2>. QED
    BY <2>1 DEF View!vars
<1>. QED
  BY <1>2, <1>3

(* What the observer retains, acknowledged or not, develops only as          *)
(* EvaluationView allows (Evaluation.ts:164-202, 317-350).                   *)
THEOREM EvaluationImplementsView == Spec => ImplementsView
<1>1. Init => View!Init
  BY DEF Init, Empty, View!Init
<1>2. IInv /\ [Next]_vars => [View!Next]_(View!vars)
  <2>. SUFFICES ASSUME IInv, [Next]_vars PROVE [View!Next]_(View!vars)
    OBVIOUS
  <2>1. ASSUME NEW i \in Trials, Acknowledged(i) \/ Refuse(i) \/ CutObserving(i)
        PROVE  [View!Next]_(View!vars)
    BY <2>1, ToldStep DEF Acknowledged, Refuse, CutObserving, Lose
  <2>2. CASE PlanAcknowledged \/ CompletedAcknowledged \/ TerminatedAcknowledged \/ LoseOwn
    <3>1. main \in {"Planning", "Completing", "Terminating"} /\ view' \in {view, OwnCall}
      BY <2>2 DEF PlanAcknowledged, CompletedAcknowledged, TerminatedAcknowledged, LoseOwn, Lose,
                  OwnCall
    <3>. QED
      BY <3>1, OwnStep
  <2>3. ASSUME NEW i \in Trials, NoteInterrupted(i) PROVE [View!Next]_(View!vars)
    BY <2>3, NoteStep
  <2>4. CASE view' = view
    BY <2>4 DEF View!vars
  <2>5. ASSUME NEW i \in Trials, Trial(i), ~(Acknowledged(i) \/ Refuse(i) \/ CutObserving(i))
        PROVE  view' = view
    BY <2>5 DEF Trial, Admit, Observe, Close, Begin, EndsItself, Evaluated, Die, Fail,
                CutWaiting, CutEvaluating
  <2>6. CASE Main \/ Interrupt
    BY <2>2, <2>4, <2>6 DEF Main, Interrupt, OwnRefused, AnnounceCompleted, Drained
  <2>7. CASE UNCHANGED vars
    BY <2>4, <2>7 DEF vars
  <2>. QED
    BY <2>1, <2>3, <2>4, <2>5, <2>6, <2>7 DEF Next
<1>. QED
  BY <1>1, <1>2, InvariantHolds, PTL DEF Spec, ImplementsView, View!Spec
===============================================================================
