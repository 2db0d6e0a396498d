---------------------------- MODULE OptimizationRun ----------------------------
(***************************************************************************)
(* Optimization.run and resumeFromStorage of effect-search                  *)
(* (internal/optimization/runtime.ts, recovery.ts): workers take trial      *)
(* numbers from a queue, reserve, evaluate and record trials; the main      *)
(* fiber completes the run, or stops the workers after a failure or an      *)
(* interruption and checkpoints what there is; the process may crash; and a *)
(* later leg continues from the checkpoint and the trial journal.  A        *)
(* configuration is identified by the position at which the sampler drew    *)
(* it.  A completed trial costs one.  Retries repeat the evaluation, events *)
(* carry no state of the run, and prior trials do not count towards the     *)
(* budget: they are left out, as is the interruption of the few steps       *)
(* between a run's start and its first trial.                               *)
(***************************************************************************)
EXTENDS Integers, Sequences, FiniteSets

CONSTANTS
  Workers,    \* settings.concurrency fibers
  Trials,     \* settings.trials, of every leg
  SpaceSize,  \* how many configurations the sampler can draw
  MaxCost,    \* settings.maxCost
  Endings,    \* bound: the outcomes that evaluations may have
  MaxLegs,    \* bound: how often the optimization is run or resumed
  None

ASSUME RunAssumption ==
  /\ None \notin Workers /\ IsFiniteSet(Workers)
  /\ Trials \in Nat /\ SpaceSize \in Nat /\ MaxCost \in Nat /\ MaxLegs \in Nat \ {0}
  /\ Endings \subseteq {"Completed", "Failed", "Cancelled"}

VARIABLES
  phase,       \* where the main fiber is; "down" after a crash
  cause,       \* why the workers are stopped: the lifecycle that records it
  lifecycle,   \* the study's lifecycle
  trials,      \* the study's history: every trial's state, by number
  queue,       \* the trial numbers no worker has taken
  draws,       \* how many configurations the sampler has drawn
  lock,        \* the worker whose study transaction waits for the journal
  reason,      \* completionReasonRef
  stop,        \* whether stopRef holds a request
  pc, job,     \* where each worker is, and its trial
  journal,     \* durable: the trial records
  cursor,      \* the tail of the journal as OptimizationStorage knows it
  checkpoint,  \* durable: the last snapshot written
  kept,        \* history variable: every outcome the study has recorded
  leg          \* how many times the optimization was run or resumed

vars == <<phase, cause, lifecycle, trials, queue, draws, lock, reason, stop,
          pc, job, journal, cursor, checkpoint, kept, leg>>

main == <<phase, cause, leg>>
study == <<lifecycle, trials>>
control == <<queue, reason, stop>>
stored == <<journal, cursor>>

-------------------------------------------------------------------------------
Numbers == 0..(Trials * MaxLegs - 1)
Draws == 0..(SpaceSize - 1)
OutcomeTags == {"Completed", "Failed", "Cancelled"}
States == [tag : OutcomeTags \cup {"Running"}, draw : Draws]

Recorded(n, s) ==
  [k \in DOMAIN trials \cup {n} |-> IF k = n THEN s ELSE trials[k]]

(* Variant: leaves reservations pending.                                    *)
LeftPending(history) == history

GivenUp(history) ==
  [n \in DOMAIN history |->
     IF history[n].tag = "Running" THEN [history[n] EXCEPT !.tag = "Cancelled"]
     ELSE history[n]]

Costed == {n \in DOMAIN trials : trials[n].tag = "Completed"}
(* Variant: off by one.                                                     *)
OverBudgetByOne == Cardinality(Costed) > MaxCost + 1

OverBudget == Cardinality(Costed) > MaxCost

(* The first completion reason stays.                                       *)
Mark(r) == reason' = IF reason = None THEN r ELSE reason

Goto(w, l) == pc' = [pc EXCEPT ![w] = l]

(* Variant: counts the trials, as if there were no gaps.                    *)
CountTrials(history) == Cardinality(DOMAIN history)

NextNumber(history) ==
  IF DOMAIN history = {} THEN 0
  ELSE 1 + CHOOSE n \in DOMAIN history : \A k \in DOMAIN history : k <= n

TrialNumbers(first) == [i \in 1..Trials |-> first + i - 1]

Snapshot == [trials |-> trials, draws |-> draws]

Up == phase \notin {"ended", "died", "down"}

-------------------------------------------------------------------------------
(* A first run; or one that continues from a run interrupted before its     *)
(* first trial, whose checkpoint is empty.                                  *)
Init ==
  /\ phase = "trials" /\ cause = "Cancelled"
  /\ lifecycle = "Running" /\ trials = << >> /\ draws = 0
  /\ queue = TrialNumbers(0)
  /\ lock = None /\ reason = None /\ stop = FALSE
  /\ pc = [w \in Workers |-> "polling"] /\ job = [w \in Workers |-> None]
  /\ journal = << >> /\ cursor = 0 /\ checkpoint \in {None, Snapshot}
  /\ kept = << >> /\ leg = 1

(* A worker runs on until it polls an empty queue, or is stopped.           *)
Poll(w) ==
  /\ pc[w] = "polling" /\ phase = "trials"
  /\ IF queue = << >>
     THEN Goto(w, "done") /\ UNCHANGED <<queue, job>>
     ELSE /\ queue' = Tail(queue)
          /\ job' = [job EXCEPT ![w] = [trial |-> Head(queue), state |-> None]]
          /\ Goto(w, "checking")
  /\ UNCHANGED <<main, study, draws, lock, reason, stop, stored, checkpoint, kept>>

(* A trial is skipped once the run is stopping or over its cost budget.     *)
Admit(w) ==
  /\ pc[w] = "checking" /\ phase = "trials"
  /\ IF OverBudget THEN Mark("budgetExhausted") ELSE UNCHANGED reason
  /\ Goto(w, IF stop \/ reason # None \/ OverBudget THEN "polling" ELSE "admitted")
  /\ UNCHANGED <<main, study, queue, draws, lock, stop, job, stored, checkpoint, kept>>

Reserve(w) ==
  LET running == [tag |-> "Running", draw |-> draws] IN
  /\ pc[w] = "admitted" /\ phase = "trials" /\ lock = None /\ draws < SpaceSize
  /\ draws' = draws + 1
  /\ trials' = Recorded(job[w].trial, running)
  /\ job' = [job EXCEPT ![w].state = running]
  /\ Goto(w, "starting")
  /\ UNCHANGED <<main, lifecycle, control, lock, stored, checkpoint, kept>>

SpaceExhausted(w) ==
  /\ pc[w] = "admitted" /\ phase = "trials" /\ lock = None /\ draws = SpaceSize
  /\ Mark("spaceExhausted")
  /\ Goto(w, "polling")
  /\ UNCHANGED <<main, study, queue, draws, lock, stop, job, stored, checkpoint, kept>>

Start(w) ==
  /\ pc[w] = "starting" /\ phase = "trials"
  /\ Goto(w, "evaluating")
  /\ UNCHANGED <<main, study, control, draws, lock, job, stored, checkpoint, kept>>

(* The objective may ask for a stop while it runs.                          *)
RequestStop(w) ==
  /\ pc[w] = "evaluating" /\ phase = "trials" /\ ~stop
  /\ stop' = TRUE
  /\ UNCHANGED <<main, study, queue, draws, lock, reason, pc, job, stored, checkpoint, kept>>

(* It succeeds, fails, or is cancelled by its timeout.                      *)
Evaluate(w) ==
  /\ pc[w] = "evaluating" /\ phase = "trials"
  /\ \E t \in Endings : job' = [job EXCEPT ![w].state.tag = t]
  /\ Goto(w, "finished")
  /\ UNCHANGED <<main, study, control, draws, lock, stored, checkpoint, kept>>

-------------------------------------------------------------------------------
(* The outcome is journaled with the sampler's position and recorded in one *)
(* uninterruptible transaction of the study.                                *)
EnterRecord(w) ==
  /\ pc[w] = "finished" /\ lock = None
  /\ lock' = w
  /\ Goto(w, "journaling")
  /\ UNCHANGED <<main, study, control, draws, job, stored, checkpoint, kept>>

Record(w) ==
  [trial |-> job[w].trial, state |-> job[w].state, draws |-> draws]

(* The journal takes a new number at the tail the storage knows.            *)
AppendsAtTail(n) ==
  cursor = Len(journal) /\ \A i \in DOMAIN journal : journal[i].trial # n

(* Variant: the journal's answer is not waited for.                         *)
JournaledUnwritten(w) ==
  /\ pc[w] = "journaling"
  /\ trials' = Recorded(job[w].trial, job[w].state)
  /\ kept' = [n \in DOMAIN kept \cup {job[w].trial} |-> trials'[n]]
  /\ lock' = None
  /\ Goto(w, "recorded")
  /\ UNCHANGED <<main, lifecycle, control, draws, job, stored, checkpoint>>

Journaled(w) ==
  /\ pc[w] = "journaling" /\ AppendsAtTail(job[w].trial)
  /\ journal' = Append(journal, Record(w))
  /\ cursor' = Len(journal')
  /\ trials' = Recorded(job[w].trial, job[w].state)
  /\ kept' = [n \in DOMAIN kept \cup {job[w].trial} |-> trials'[n]]
  /\ lock' = None
  /\ Goto(w, "recorded")
  /\ UNCHANGED <<main, lifecycle, control, draws, job, checkpoint>>

(* Whatever fails in a worker stops the others.                             *)
StopAll(c) == phase' = "stopping" /\ cause' = c /\ UNCHANGED leg

(* Variant: the failed transaction keeps the semaphore.                     *)
JournalFailsHolding(w) ==
  /\ pc[w] = "journaling"
  /\ Goto(w, "stopped")
  /\ StopAll("Failed")
  /\ UNCHANGED <<study, control, draws, lock, job, stored, checkpoint, kept>>

(* Variant: the failure of one worker is not noticed by the others.         *)
JournalFailsQuietly(w) ==
  /\ pc[w] = "journaling"
  /\ lock' = None
  /\ Goto(w, "stopped")
  /\ UNCHANGED <<main, study, control, draws, job, stored, checkpoint, kept>>

JournalFails(w) ==
  /\ pc[w] = "journaling"
  /\ \/ UNCHANGED journal
     \/ AppendsAtTail(job[w].trial) /\ journal' = Append(journal, Record(w))
  /\ lock' = None
  /\ Goto(w, "stopped")
  /\ StopAll("Failed")
  /\ UNCHANGED <<study, control, draws, job, cursor, checkpoint, kept>>

(* The trial's events, its cost, and the stopping policies.                 *)
Account(w) ==
  /\ pc[w] = "recorded" /\ phase = "trials"
  /\ IF job[w].state.tag = "Completed"
     THEN IF OverBudget THEN Mark("budgetExhausted")
          ELSE UNCHANGED reason \/ Mark("targetReached") \/ Mark("noImprovement")
     ELSE UNCHANGED reason \/ (job[w].state.tag = "Failed" /\ Mark("noImprovement"))
  /\ Goto(w, "polling")
  /\ UNCHANGED <<main, study, queue, draws, lock, stop, job, stored, checkpoint, kept>>

(* The sampler fails, an event cannot be persisted, or the objective dies.  *)
Fails(w) ==
  /\ pc[w] \in {"admitted", "starting", "evaluating", "recorded"} /\ phase = "trials"
  /\ Goto(w, "stopped")
  /\ StopAll("Failed")
  /\ UNCHANGED <<study, control, draws, lock, job, stored, checkpoint, kept>>

DurationElapses ==
  /\ phase = "trials" /\ reason = None
  /\ Mark("durationExceeded")
  /\ UNCHANGED <<main, study, queue, draws, lock, stop, pc, job, stored, checkpoint, kept>>

(* A worker that is stopped: a transaction that waits for the journal ends  *)
(* first.                                                                   *)
Stop(w) ==
  /\ phase = "stopping" /\ pc[w] \notin {"journaling", "stopped"}
  /\ Goto(w, "stopped")
  /\ UNCHANGED <<main, study, control, draws, lock, job, stored, checkpoint, kept>>

-------------------------------------------------------------------------------
Legal(from, to) == from = to \/ from = "Running"

To(p) == phase' = p /\ UNCHANGED <<cause, leg>>

(* All workers have returned: the run completes, announces it and writes    *)
(* the completion snapshot.                                                 *)
Complete ==
  /\ phase = "trials" /\ \A w \in Workers : pc[w] = "done"
  /\ lifecycle' = "Completed"
  /\ To("completed")
  /\ UNCHANGED <<trials, control, draws, lock, pc, job, stored, checkpoint, kept>>

Announce ==
  /\ phase = "completed" /\ To("announced")
  /\ UNCHANGED <<study, control, draws, lock, pc, job, stored, checkpoint, kept>>

WriteCompletion ==
  /\ phase = "announced" /\ To("ended")
  /\ checkpoint' = Snapshot
  /\ UNCHANGED <<study, control, draws, lock, pc, job, stored, kept>>

(* The event or the snapshot cannot be persisted; a write may have been     *)
(* committed.                                                               *)
CompletionFails ==
  /\ phase \in {"completed", "announced"}
  /\ phase' = "stopping" /\ cause' = "Failed"
  /\ \/ UNCHANGED checkpoint
     \/ phase = "announced" /\ checkpoint' = Snapshot
  /\ UNCHANGED <<study, control, draws, lock, pc, job, stored, kept, leg>>

(* The caller interrupts the run.                                           *)
Interrupt ==
  /\ phase \in {"trials", "completed", "announced"}
  /\ StopAll("Cancelled")
  /\ UNCHANGED <<study, control, draws, lock, pc, job, stored, checkpoint, kept>>

(* withRuntimeCheckpoint: when the workers are gone, record the lifecycle   *)
(* and give up what is pending, in a transaction that dies if the change is *)
(* illegal, and then write a checkpoint.                                    *)
Stopped ==
  phase = "stopping" /\ \A w \in Workers : pc[w] \in {"done", "stopped"}

RecordFailure ==
  /\ Stopped /\ Legal(lifecycle, cause)
  /\ lifecycle' = cause /\ trials' = GivenUp(trials)
  /\ To("persisting")
  /\ UNCHANGED <<control, draws, lock, pc, job, stored, checkpoint, kept>>

DieRecording ==
  /\ Stopped /\ ~Legal(lifecycle, cause)
  /\ To("died")
  /\ UNCHANGED <<study, control, draws, lock, pc, job, stored, checkpoint, kept>>

Persist ==
  /\ phase = "persisting" /\ To("ended")
  /\ checkpoint' \in {checkpoint, Snapshot}
  /\ UNCHANGED <<study, control, draws, lock, pc, job, stored, kept>>

-------------------------------------------------------------------------------
(* The process dies: what is not durable is gone.                           *)
Crash ==
  /\ Up /\ To("down")
  /\ \/ UNCHANGED journal
     \/ \E w \in Workers :
          /\ pc[w] = "journaling" /\ AppendsAtTail(job[w].trial)
          /\ journal' = Append(journal, Record(w))
  /\ lifecycle' = "Created" /\ trials' = << >> /\ draws' = 0 /\ queue' = << >>
  /\ lock' = None /\ reason' = None /\ stop' = FALSE /\ cursor' = 0
  /\ pc' = [w \in Workers |-> "done"] /\ job' = [w \in Workers |-> None]
  /\ UNCHANGED <<checkpoint, kept>>

(* The journal's records of trials the checkpoint does not number, by their *)
(* positions.                                                               *)
Replayed ==
  {i \in DOMAIN journal : journal[i].trial >= NextNumber(checkpoint.trials)}

RecoveredTrials ==
  [n \in DOMAIN checkpoint.trials \cup {journal[i].trial : i \in Replayed} |->
     IF \E i \in Replayed : journal[i].trial = n
     THEN journal[CHOOSE i \in Replayed : journal[i].trial = n].state
     ELSE checkpoint.trials[n]]

(* Variant: the sampler is restored from the checkpoint.                    *)
CheckpointDraws == checkpoint.draws

(* The last record's sampler position supersedes the checkpoint's.          *)
RecoveredDraws ==
  IF Replayed = {} THEN checkpoint.draws
  ELSE journal[CHOOSE i \in Replayed : \A k \in Replayed : k <= i].draws

(* Recovery refuses a trial number that occurs twice.                       *)
Recoverable ==
  /\ checkpoint # None
  /\ \A i, j \in Replayed : journal[i].trial = journal[j].trial => i = j

(* resumeFromStorage: needs a checkpoint, and continues after the highest   *)
(* number for another budget of trials.                                     *)
Resume ==
  /\ ~Up /\ Recoverable /\ leg < MaxLegs
  /\ leg' = leg + 1 /\ phase' = "trials" /\ cause' = "Cancelled"
  /\ lifecycle' = "Running"
  /\ trials' = GivenUp(RecoveredTrials) /\ draws' = RecoveredDraws
  /\ queue' = TrialNumbers(NextNumber(RecoveredTrials))
  /\ lock' = None /\ reason' = None /\ stop' = FALSE
  /\ pc' = [w \in Workers |-> "polling"] /\ job' = [w \in Workers |-> None]
  /\ cursor' = Len(journal)
  /\ UNCHANGED <<journal, checkpoint, kept>>

-------------------------------------------------------------------------------
RecordTrial(w) == EnterRecord(w) \/ Journaled(w) \/ JournalFails(w)

Work(w) ==
  \/ Poll(w) \/ Admit(w) \/ Reserve(w) \/ SpaceExhausted(w) \/ Start(w)
  \/ Evaluate(w) \/ RecordTrial(w) \/ Account(w) \/ Fails(w) \/ Stop(w)

Main ==
  \/ Complete \/ Announce \/ WriteCompletion \/ CompletionFails
  \/ RecordFailure \/ DieRecording \/ Persist

Next ==
  \/ \E w \in Workers : Work(w) \/ RequestStop(w)
  \/ Main \/ DurationElapses \/ Interrupt \/ Crash \/ Resume

Spec == Init /\ [][Next]_vars

(* As long as some fiber of the run can go on, one does: evaluations end, if *)
(* need be by their timeout, and so do the journal's appends.  Which one it *)
(* is does not matter, for a leg has only so many steps.                    *)
FairSpec == Spec /\ WF_vars(Main \/ \E w \in Workers : Work(w))

-------------------------------------------------------------------------------
Phases ==
  {"trials", "completed", "announced", "stopping", "persisting", "ended", "died", "down"}

Reasons ==
  {"budgetExhausted", "spaceExhausted", "targetReached", "noImprovement", "durationExceeded"}

Histories == UNION {[S -> States] : S \in SUBSET Numbers}
Outcomes == [tag : OutcomeTags, draw : Draws]
Jobs == [trial : Numbers, state : {None} \cup States]

ASSUME NoneAssumption ==
  None \notin [trials : Histories, draws : 0..SpaceSize] /\ None \notin Jobs

JobFits(w) ==
  /\ pc[w] \in {"checking", "admitted", "starting", "evaluating", "finished",
                "journaling", "recorded"} => job[w] # None
  /\ pc[w] \in {"starting", "evaluating"} =>
       trials[job[w].trial] = job[w].state /\ job[w].state.tag = "Running"
  /\ pc[w] \in {"finished", "journaling"} =>
       trials[job[w].trial].tag = "Running" /\ job[w].state \in Outcomes

(* The types of the variables; the semaphore is held exactly while its      *)
(* holder waits for the journal; a worker's trial is as it left it.         *)
TypeOK ==
  /\ phase \in Phases /\ cause \in {"Cancelled", "Failed"}
  /\ lifecycle \in {"Created", "Running", "Completed", "Cancelled", "Failed"}
  /\ trials \in Histories /\ queue \in Seq(Numbers)
  /\ draws \in 0..SpaceSize /\ leg \in 1..MaxLegs
  /\ lock \in Workers \cup {None}
  /\ \A w \in Workers : (lock = w) <=> (pc[w] = "journaling")
  /\ reason \in Reasons \cup {None} /\ stop \in BOOLEAN
  /\ pc \in [Workers ->
       {"polling", "checking", "admitted", "starting", "evaluating", "finished",
        "journaling", "recorded", "done", "stopped"}]
  /\ job \in [Workers -> {None} \cup Jobs]
  /\ \A w \in Workers : JobFits(w)
  /\ journal \in Seq([trial : Numbers, state : Outcomes, draws : 0..SpaceSize])
  /\ cursor \in 0..Len(journal)
  /\ checkpoint = None \/ checkpoint \in [trials : Histories, draws : 0..SpaceSize]
  /\ \A n \in DOMAIN kept : kept[n] \in Outcomes

(* What a run has recorded no failure, crash or resumption takes away: the  *)
(* outcome is in the history of every later leg, as it was.                 *)
OutcomesKept ==
  phase # "down" => \A n \in DOMAIN kept : n \in DOMAIN trials /\ trials[n] = kept[n]

(* The sampler never draws a position again that an outcome in the history  *)
(* came from, though checkpoints and journal are written at different times *)
(* and by concurrent workers.                                               *)
DrawsNotRepeated ==
  LET settled == {n \in DOMAIN trials : trials[n].tag \in {"Completed", "Failed"}} IN
  /\ \A n \in settled : trials[n].draw < draws
  /\ \A n, k \in settled : trials[n].draw = trials[k].draw => n = k

(* A checkpoint can always be resumed from: recovery accepts it with the    *)
(* journal of any later moment, it holds no pending trial, its outcomes are *)
(* journaled and its sampler has drawn them.                                *)
CheckpointSound ==
  checkpoint # None =>
    /\ Recoverable
    /\ \A n \in DOMAIN checkpoint.trials :
         LET s == checkpoint.trials[n] IN
         /\ s.tag # "Running" /\ s.draw < checkpoint.draws
         /\ s.tag \in {"Completed", "Failed"} =>
              \E i \in DOMAIN journal : journal[i].trial = n /\ journal[i].state = s

(* The cost budget is overshot by at most one trial per worker: those that  *)
(* were admitted before the trial that used it up was recorded.             *)
CostBounded == Cardinality(Costed) <= MaxCost + Cardinality(Workers)

(* Within a leg the study keeps the promises of a trial ledger.             *)
Ledger == INSTANCE TrialLedger WITH
  Budget <- Trials * MaxLegs,
  trials <- [n \in DOMAIN trials |-> trials[n].tag],
  Running <- "Running", Cancelled <- "Cancelled", Outcomes <- OutcomeTags

LegsAreLedgers ==
  [][leg' = leg /\ phase' # "down" => Ledger!Next \/ UNCHANGED Ledger!vars]_vars

(* Every leg comes to an end, whatever stops it.                            *)
LegsEnd == Up ~> ~Up

(* withRuntimeCheckpoint: a run that fails or is interrupted "records the   *)
(* lifecycle and persists a checkpoint before the failure continues".       *)
FailuresCheckpointed == phase # "died"
===============================================================================
