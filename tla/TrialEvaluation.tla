---------------------------- MODULE TrialEvaluation ----------------------------
(***************************************************************************)
(* The evaluation of trials (effect-search, internal/optimization/runtime:  *)
(* trialExecution, trialEvaluation, objectiveTimeout, controls) through the *)
(* objective cache, from a trial's start to its outcome.  Each trial has a   *)
(* fiber of its own that resolves its configuration's value in the cache,    *)
(* runs the objective when the cache has none, and tries again when that     *)
(* fails.  The objective reports intermediate values, from several fibers of *)
(* its own if it likes; a pruning policy decides on each.  A deadline        *)
(* interrupts the fiber wherever it is.  The cache is KeyedCache.            *)
(***************************************************************************)
EXTENDS Naturals, Sequences, Functions

CONSTANTS
  Trials,      \* the trials, one fiber each
  Configs,     \* the configurations: the cache's keys
  Values,      \* what objectives return
  Steps,       \* the steps each trial's objective may report at
  MaxRetries,  \* the length of the retry schedule
  Garbled, Unknown, None

VARIABLES
  store, lookup, registry, pc, call, sem, answer,  \* the cache
  config,    \* the configuration of each trial
  phase,     \* where each trial is
  timed,     \* has its deadline passed?
  exit,      \* how its fiber, or the last attempt, ended
  tries,     \* retries so far
  reports,   \* the steps it has reported
  inflight,  \* the reports whose events are being published
  prune,     \* the step of its pruning decision
  told,      \* the decisions in the retained events of each step's report
  retried,   \* the attempts in its retained events of retries
  outcome    \* its recorded state

cacheVars == <<store, lookup, registry, pc, call, sem, answer>>
reportVars == <<reports, inflight, prune>>
trialVars == <<config, phase, timed, exit, tries, reports, inflight, prune, told, retried, outcome>>
vars == <<cacheVars, trialVars>>

Cache == INSTANCE KeyedCache WITH Fibers <- Trials, Keys <- Configs

Exits == {"value", "error", "defect", "storage", "interrupted"}

ASSUME TrialEvaluationAssumption ==
  /\ MaxRetries \in Nat
  /\ None \notin Values /\ Garbled \notin Values /\ Unknown \notin Values
  /\ None # Garbled /\ None # Unknown /\ Garbled # Unknown
  /\ None \notin Trials
  /\ None \notin [op : Cache!Ops, key : Configs, value : Cache!Stored]
  /\ None \notin [op : Cache!Ops, key : Configs, value : Cache!Stored, done : BOOLEAN]
  /\ None \notin [to : Trials, tag : {"failed", "found", "made"}, value : Cache!Stored]
  /\ None \notin [tag : Exits, value : Cache!Stored]

Exit(tag) == [tag |-> tag, value |-> None]
Returned(x) == [tag |-> "value", value |-> x]

Init ==
  /\ Cache!Init
  /\ config \in [Trials -> Configs]
  /\ phase = [t \in Trials |-> "queued"]
  /\ timed = [t \in Trials |-> FALSE]
  /\ exit = [t \in Trials |-> None]
  /\ tries = [t \in Trials |-> 0]
  /\ reports = [t \in Trials |-> {}]
  /\ inflight = [t \in Trials |-> {}]
  /\ prune = [t \in Trials |-> None]
  /\ told = [t \in Trials |-> [s \in Steps[t] |-> <<>>]]
  /\ retried = [t \in Trials |-> <<>>]
  /\ outcome = [t \in Trials |-> None]

-------------------------------------------------------------------------------
(* Attempts                                                                 *)

Resolve(t) ==
  /\ Cache!Call(t, "resolve", config[t], None)
  /\ phase' = [phase EXCEPT ![t] = "evaluating"]
  /\ exit' = [exit EXCEPT ![t] = None]

Begin(t) ==
  /\ phase[t] = "queued"
  /\ Resolve(t)
  /\ UNCHANGED <<config, timed, tries, reportVars, told, retried, outcome>>

(* The attempt ends; reports of the objective's own fibers end with it.     *)
End(t, e) ==
  /\ exit' = [exit EXCEPT ![t] = e]
  /\ inflight' = [inflight EXCEPT ![t] = {}]
  /\ UNCHANGED <<config, phase, timed, tries, reports, prune, told, retried, outcome>>

(* The text this trial is about to decode is no value.                      *)
Corrupt(t) ==
  \/ pc[t] = "reading" /\ lookup[call[t].key] = Garbled
  \/ pc[t] = "fetched" /\ call[t].value = Garbled

(* The cache goes one step on.  A value it answers, its own or another      *)
(* trial's, ends the attempt; so does corrupt text.                         *)
UseCache(t) ==
  /\ \/ Cache!Refer(t) \/ Cache!Acquire(t) \/ Cache!ReadLocal(t) \/ Cache!Fetch(t)
     \/ Cache!Fill(t) \/ Cache!Land(t) \/ Cache!Publish(t)
  /\ CASE answer' = None -> UNCHANGED trialVars
       [] answer' # None /\ answer'.tag # "failed" -> End(t, Returned(answer'.value))
       [] OTHER -> Corrupt(t) /\ End(t, Exit("error"))

(* A cache failure is a trial error like the objective's own.               *)
CacheFails(t) ==
  /\ \/ Cache!Break(t)
     \/ pc[t] = "writing" /\ Cache!Quit(t)
  /\ End(t, Exit("error"))

ObjectiveReturns(t, x) ==
  /\ inflight[t] = {}
  /\ Cache!Compute(t, x)
  /\ UNCHANGED trialVars

ObjectiveFails(t) ==
  /\ pc[t] = "computing"
  /\ Cache!Quit(t)
  /\ \E tag \in {"error", "defect"} : End(t, Exit(tag))

-------------------------------------------------------------------------------
(* Reports (recordReport)                                                   *)

Unsent(s) == [step |-> s, prune |-> FALSE, retained |-> FALSE]
Sent(s, d) == [step |-> s, prune |-> d, retained |-> TRUE]

(* A step is recorded once, whatever attempt reports it, before its event   *)
(* is published; a report of a recorded step changes nothing.               *)
Report(t, s) ==
  /\ pc[t] = "computing"
  /\ s \notin reports[t]
  /\ reports' = [reports EXCEPT ![t] = @ \cup {s}]
  /\ inflight' = [inflight EXCEPT ![t] = @ \cup {Unsent(s)}]
  /\ Cache!Pass
  /\ UNCHANGED <<config, phase, timed, exit, tries, prune, told, retried, outcome>>

(* The event carries the policy's decision on the report.                   *)
Retain(t, r) ==
  /\ ~r.retained
  /\ \E d \in BOOLEAN :
       /\ inflight' = [inflight EXCEPT ![t] = (@ \ {r}) \cup {Sent(r.step, d)}]
       /\ told' = [told EXCEPT ![t][r.step] = Append(@, d)]
  /\ Cache!Pass
  /\ UNCHANGED <<config, phase, timed, exit, tries, reports, prune, retried, outcome>>

(* The first decision to prune stands.                                      *)
Decide(t, r) ==
  /\ r.retained
  /\ inflight' = [inflight EXCEPT ![t] = @ \ {r}]
  /\ prune' = [prune EXCEPT ![t] = IF r.prune /\ @ = None THEN r.step ELSE @]
  /\ Cache!Pass
  /\ UNCHANGED <<config, phase, timed, exit, tries, reports, told, retried, outcome>>

(* The objective may go on without its event, or die of the failure.        *)
PublishFails(t, r) ==
  \/ /\ inflight' = [inflight EXCEPT ![t] = @ \ {r}]
     /\ Cache!Pass
     /\ UNCHANGED <<config, phase, timed, exit, tries, reports, prune, told, retried, outcome>>
  \/ /\ Cache!Quit(t)
     /\ End(t, Exit("storage"))

-------------------------------------------------------------------------------
(* Retries and the deadline                                                 *)

(* Only an attempt that failed with a trial error is repeated, and only     *)
(* once that is announced.                                                  *)
ToRetry(t) == exit[t] = Exit("error") /\ tries[t] < MaxRetries

AnnounceRetry(t) ==
  /\ phase[t] = "evaluating" /\ ToRetry(t)
  /\ phase' = [phase EXCEPT ![t] = "retrying"]
  /\ retried' = [retried EXCEPT ![t] = Append(@, tries[t] + 1)]
  /\ Cache!Pass
  /\ UNCHANGED <<config, timed, exit, tries, reportVars, told, outcome>>

(* Variant: a new attempt may report every step again.                      *)
RetryAfresh(t) ==
  /\ phase[t] = "retrying"
  /\ tries' = [tries EXCEPT ![t] = @ + 1]
  /\ Resolve(t)
  /\ reports' = [reports EXCEPT ![t] = {}]
  /\ UNCHANGED <<config, timed, inflight, prune, told, retried, outcome>>

Retry(t) ==
  /\ phase[t] = "retrying"
  /\ tries' = [tries EXCEPT ![t] = @ + 1]
  /\ Resolve(t)
  /\ UNCHANGED <<config, timed, reportVars, told, retried, outcome>>

BetweenAttempts(t) ==
  \/ phase[t] = "retrying"
  \/ phase[t] = "evaluating" /\ ToRetry(t)

RetryCut(t, e) ==
  /\ BetweenAttempts(t)
  /\ phase' = [phase EXCEPT ![t] = "evaluating"]
  /\ exit' = [exit EXCEPT ![t] = e]
  /\ Cache!Pass
  /\ UNCHANGED <<config, timed, tries, reportVars, told, retried, outcome>>

Running(t) ==
  \/ phase[t] = "evaluating" /\ exit[t] = None
  \/ BetweenAttempts(t)

(* Variant: only the objective runs under the deadline.                     *)
DeadlineOfObjective(t) ==
  /\ pc[t] = "computing" /\ ~timed[t]
  /\ timed' = [timed EXCEPT ![t] = TRUE]
  /\ Cache!Pass
  /\ UNCHANGED <<config, phase, exit, tries, reportVars, told, retried, outcome>>

Deadline(t) ==
  /\ Running(t) /\ ~timed[t]
  /\ timed' = [timed EXCEPT ![t] = TRUE]
  /\ Cache!Pass
  /\ UNCHANGED <<config, phase, exit, tries, reportVars, told, retried, outcome>>

(* Variant: the trial does not wait for its fiber.                          *)
InterruptedAside(t) ==
  /\ timed[t]
  /\ \/ RetryCut(t, Exit("interrupted"))
     \/ /\ exit[t] = None
        /\ Cache!Pass
        /\ End(t, Exit("interrupted"))

(* The interruption takes effect.  What the objective's finalizers die of   *)
(* takes its place.                                                         *)
Interrupted(t) ==
  /\ timed[t]
  /\ \/ RetryCut(t, Exit("interrupted"))
     \/ /\ Cache!Quit(t) \/ Cache!Break(t)
        /\ \/ End(t, Exit("interrupted"))
           \/ pc[t] = "computing" /\ End(t, Exit("defect"))
     \/ /\ Cache!ReadLocal(t) \/ Cache!Fill(t) \/ Cache!Publish(t)
        /\ answer' = Cache!Failed(t)
        /\ End(t, Exit("interrupted"))

-------------------------------------------------------------------------------
(* The outcome (evaluateObjectiveWithTimeout, liftStorageFailure,           *)
(* finalizeTrialWithPrune)                                                  *)

Completed(x, n) == [tag |-> "Completed", value |-> x, retries |-> n]
Pruned(s) == [tag |-> "Pruned", step |-> s]
Failed == [tag |-> "Failed"]
Cancelled == [tag |-> "Cancelled"]
Lost == [tag |-> "Lost"]   \* nothing is recorded: the optimization fails

Verdict(t) ==
  CASE exit[t].tag = "interrupted" -> Cancelled
    [] exit[t].tag = "storage" -> Lost
    [] exit[t].tag \in {"value", "error", "defect"} /\ prune[t] # None -> Pruned(prune[t])
    [] exit[t].tag = "value" /\ prune[t] = None -> Completed(exit[t].value, tries[t])
    [] OTHER -> Failed

Record(t) ==
  /\ phase[t] = "evaluating"
  /\ exit[t] # None /\ ~ToRetry(t)
  /\ phase' = [phase EXCEPT ![t] = "ended"]
  /\ outcome' = [outcome EXCEPT ![t] = Verdict(t)]
  /\ Cache!Pass
  /\ UNCHANGED <<config, timed, exit, tries, reportVars, told, retried>>

Evict == \E k \in Configs : Cache!Evict(k) /\ UNCHANGED trialVars

Trial(t) ==
  \/ Begin(t) \/ UseCache(t) \/ CacheFails(t) \/ ObjectiveFails(t)
  \/ \E x \in Values : ObjectiveReturns(t, x)
  \/ \E s \in Steps[t] : Report(t, s)
  \/ \E r \in inflight[t] : Retain(t, r) \/ Decide(t, r) \/ PublishFails(t, r)
  \/ AnnounceRetry(t) \/ Retry(t)
  \/ RetryCut(t, Exit("storage"))
  \/ Deadline(t) \/ Interrupted(t) \/ Record(t)

Next == Evict \/ \E t \in Trials : Trial(t)

Spec == Init /\ [][Next]_vars

(* Only what the trial's own pool fiber does is sure to happen: it begins    *)
(* the trial, its clock runs, an interruption is served, an outcome is       *)
(* recorded.  The objective, the store and the sink may hang.                *)
PoolFiber(t) == Begin(t) \/ Deadline(t) \/ Interrupted(t) \/ Record(t)

FairSpec == Spec /\ \A t \in Trials : WF_vars(PoolFiber(t))

-------------------------------------------------------------------------------
(* Trials of one configuration complete with one value: whoever computes it  *)
(* does so under the key's lock, and failed, interrupted and repeated        *)
(* attempts never let a second computation's value take its place.           *)
OneValuePerConfig ==
  \A t, u \in Trials :
    /\ config[t] = config[u]
    /\ outcome[t] # None /\ outcome[t].tag = "Completed"
    /\ outcome[u] # None /\ outcome[u].tag = "Completed"
    => outcome[t].value = outcome[u].value

(* The retained events tell of each step once and of each retry in order,    *)
(* though attempts report again and events are lost; a trial is pruned where *)
(* a retained event says so, and once decided nothing but the deadline or a  *)
(* storage failure makes it anything else.                                   *)
ReportsTruthful ==
  \A t \in Trials :
    /\ \A s \in Steps[t] : Len(told[t][s]) <= 1
    /\ prune[t] # None => TRUE \in Range(told[t][prune[t]])
    /\ \A i \in DOMAIN retried[t] : retried[t][i] = i
    /\ Len(retried[t]) \in {tries[t], tries[t] + 1}
    /\ outcome[t] # None =>
         /\ outcome[t].tag = "Completed" => Len(retried[t]) = outcome[t].retries
         /\ outcome[t].tag \in {"Completed", "Failed"} => prune[t] = None

(* An outcome is recorded when nothing of the evaluation is left: no fiber   *)
(* works, waits or holds a lock, no event is on its way; and a trial is      *)
(* cancelled only if its interruption is all there was to its end, so that a *)
(* late answer or defect is never dropped.                                   *)
NothingLeftBehind ==
  \A t \in Trials : outcome[t] # None =>
    /\ pc[t] = "idle" /\ sem[t] = None /\ inflight[t] = {}
    /\ outcome[t] = Cancelled <=> exit[t] = Exit("interrupted")
    /\ outcome[t] = Cancelled => timed[t]

(* With a deadline every trial ends, whatever hangs: an objective, the store *)
(* or the sink, its own or that of the trial whose key it waits for.         *)
TrialsEnd == \A t \in Trials : <>(phase[t] = "ended")
===============================================================================
