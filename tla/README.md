# Theoria in TLA+

Theoria is a TypeScript monorepo of Effect libraries for reproducible studies,
black-box optimization and prompt optimization. This directory models the parts
of it that keep state while several fibers, failing storage and restarts are at
work, checks them with TLC on small instances, and proves the most important
results with TLAPS for every value of the constants. `PROJECT.json` lists every
component, run, mutant, hazard and theorem, and maps every definition to the
lines it translates.

## 1. The system

| Part | State | Operations | What is hard |
| --- | --- | --- | --- |
| Recordings (`effect-study`: `StudyStorage`, `internal/recording`, `internal/fileSystemRecording`) | one file of wire records for all runs; a cached index with the stat it was made from; a one-permit semaphore | `open`, `append`, `read`, `writeCheckpoint`, `loadCheckpoint`, `replay` | a write that fails, is interrupted or is cut by a crash may have left nothing, a partial line or the whole line; retries; stale index; replay under two permits |
| Evaluation (`effect-study`: `Evaluation`) | a serializer, the cause of a closed observer, the first fatal cause; with a reader, the view folded from the retained events | `runWithEvents`, `runSettled`, `run`, `runCollecting`, `reduce`, `coverage` | observations of concurrent trials; an observer that fails after retaining; interruption inside any callback; which cause is reported |
| Study (`effect-study`: `Study`, `Lifecycle`, `History`) | lifecycle and trial history under a semaphore | `modify`, `transition`, `read` | an illegal transition kills the transaction |
| Ask/tell handle (`effect-search`: `internal/optimization/askTell*`) | a study, a sampler, a journal cursor, a completion reason, an event queue, the incumbent | `open`, `ask`, `tell`, `fail`, `cancel`, `result`, `snapshot`, `close` | concurrent tells of one trial, of the last trials, of two improvements; completion by several ways at once; interruption |
| Optimization run (`effect-search`: `internal/optimization/runtime*`, `recovery`, `OptimizationSnapshot`, `OptimizationStorage`) | a study, a work queue, worker fibers, completion reason, stop request, checkpoint and journal | `run`, `resume`, `resumeFromStorage` | failure, interruption, crash and resumption at any step, with workers finishing out of order |
| Trial evaluation and scheduler (`effect-search`: `runtime/trialEvaluation`, `controls`, `scheduler`) | reports and prune decision of a trial; trial counter and completed count of the brackets | evaluate, retry, time out, report, prune; run brackets and rounds | a timeout against a late answer; promotion and replenishment when trials fail or a stop comes in the middle of a round |
| Caches (`effect-search`: `internal/cache`; `effect-text`: `internal/cache`) | lookup cache, key-value store, a lock per key | `get`, `set`, `remove`, `resolve` | one computation per key; failed and interrupted writes; interrupted readers |
| Samplers, search spaces, Pareto fronts, acquisition | sampler checkpoints | suggest, checkpoint, restore | numerics; determinism on resumption |
| Prompt programs and optimizers (`effect-dsp`) | predictor parameters, fiber-local traces, error budgets; TeacherTrace's evidence, round counter and error count | forward, refine, compile; `TeacherTrace.collect` | budgets read while other examples run; an awaited observer that fails in the middle |
| Inference (`effect-inference`, `effect-lm`), text (`effect-text`), mathematics (`effect-math`), bytes (`digest`, `seal`, `sign`), web site (`apps/theoria`, `docs-model`) | little or none | | numerics, parsing, I/O |

How they interact: an optimization run and an ask/tell handle hold their trials in
a *study* and change them only in its transactions; inside such a transaction the
outcome of a trial is appended to a *trial journal*, which `OptimizationStorage`
writes as events of a *recording*; around the transaction they publish events and
check budgets. A trial's evaluation may go through the *objective cache*. The
prompt optimizers drive the *evaluation* (`TeacherTrace.collect` through
`runCollecting`) and the *handle*.
`Study.modify` and the recording are thus the two places where a wrong order
loses data, and everything else happens between their steps.

What makes each part correct, in short: a recording never loses or invents an
acknowledged event and a replayed state is exactly a prefix's reduction; what an
evaluation's observer retained is true of the run; a handle's trials get one
journaled outcome each and its event stream tells a true story and ends; an
optimization keeps its outcomes over failures and resumptions and ends.

## 2. Modules

| Module | Models | Specification it implements |
| --- | --- | --- |
| `EventLog` | abstract: events of runs with gapless cursors, receipts | |
| `Recording` | the recordings over one file | `EventLog` |
| `RecordingProofs` | theorems about `Recording` | |
| `EvaluationView` | abstract: what retained observations promise | |
| `Evaluation` | `runWithEvents` and `reduce` | `EvaluationView` |
| `EvaluationProofs` | theorems about `Evaluation` | |
| `TrialLedger` | abstract: trials reserved within a budget, one outcome each | |
| `AskTell` | the manual handle | `TrialLedger` |
| `AskTellProofs` | theorems about `AskTell` | |
| `OptimizationRun` | the worker pool, its failure, crash and resumption | `TrialLedger`, leg by leg |
| `OptimizationRunProofs` | theorems about `OptimizationRun` | |
| `KeyedStore` | abstract: a store of atomic operations | |
| `KeyedCache` | the cache: lookup cache, store, a semaphore per key | `KeyedStore` |
| `KeyedCacheProofs` | theorems about `KeyedCache` | |
| `TrialEvaluation` | a trial from its start to its outcome, through the cache | its cache part: `KeyedCache` |
| `TrialEvaluationProofs` | theorems about `TrialEvaluation` | |
| `Collecting` | `runCollecting` | |
| `TeacherTrace` | `TeacherTrace.collect` over `Collecting` | |
| `TeacherTraceProofs` | theorems about `Collecting` and `TeacherTrace` | its evaluation: `Collecting` |
| `Brackets` | Hyperband and BOHB: plan, brackets, rounds | |
| `BracketsProofs` | theorems about `Brackets` and its plans | |
| `MC...` | instances for TLC | |

`TrialEvaluation` composes with `KeyedCache` and `TeacherTrace` with `Collecting`
(`INSTANCE ... WITH`): each of their steps is conjoined with the step of the part
it drives, or leaves that part alone. `OptimizationRun` and `Brackets` choose the
outcome of a trial among those that `TrialEvaluation` shows possible.

In all of them a step is what happens between two points where the code may
yield to another fiber or to storage; JavaScript runs one fiber at a time, so
reads and writes of references with no such point between them are one step.

**Recording.** `file` is the sequence of complete lines, `torn` says that bytes
without a newline follow. A call takes the permit (`lock`), reads (through the
cache when `stat` allows it: `CacheHit`), decides (`Acceptable`, which is
`accept`), and writes. `Write` leaves the whole line; `WriteFails` and `Crash`
leave nothing, part of it or all of it; `Settle` and `StatFails` are the stat
after the write; `Abandon` is an interruption before the write. A caller that
saw a failure may ask again for the same record, at the same or at another
cursor. `LoadCheckpoint` and `ReadTail` are the two halves of `replay`. The
state reduced by a caller is the sequence of the record identities reduced.

**Evaluation.** `pc` follows each trial through waiting for the serializer,
telling its start, evaluating, waiting again and telling its outcome; `main`
follows the run. An observer's call ends acknowledged, or not (`Lose`), and then
it may have retained the event all the same. A failing observation is two steps
(`Refuse`, `Close`): its caller still holds the permit in between, which is the
order the doc comment of `runWithEvents` asks for. `Fail` is the failed fiber's
exit, upon which the others are interrupted (`Cut...`). The retained log is kept
as its fold `view`, one application of `reduce` for every event retained.

**AskTell.** A client is a fiber in one of its calls. `EnterFinalize` to
`Journaled` is the transaction of `finalizeTrial`, which holds the study's
semaphore (`lock`) while it waits for the journal. `EmitOutcome`, `UpdateBest`,
`AnnounceBest` and `CompleteIfBudgetReached` follow it, outside the semaphore.
`SetReason`, `EndStudy`, `Publish` and `EndQueue` are `publishCompletion`.
`Interrupt` may end a call where the code is interruptible. A handle without
storage takes the same steps with an append that always succeeds.

**OptimizationRun.** A leg is one `run` or `resumeFromStorage`. Workers `Poll`,
`Admit` (the skip check), `Reserve`, `Start`, `Evaluate`, record in a
transaction that waits for the journal, and `Account`. The main fiber completes
the study, announces and writes the completion; or, after a failure or an
interruption, stops the workers, records the lifecycle and persists a
checkpoint. `Crash` loses all but `journal` and `checkpoint`; `Resume` puts the
history together from both.

**KeyedCache.** An operation is a fiber that `Call`s, gets its key's semaphore
from the registry (`Refer`; made now if nobody refers to one), waits for the
permit (`Acquire`), reads the lookup cache and perhaps the store (`ReadLocal`,
`Fetch`, `Fill`), computes, and writes (`Land`, when the store has it, and
`Publish`, when the caller hears of it). `Break` is a failed or interrupted read
or write: it invalidates the local entry, and a write may have left the value,
the old one or text that does not decode (`Garbled`). `Quit` is every other
failure or interruption. `Evict` is the bounded lookup cache. Keys stand for
fingerprints within keyspaces.

**TrialEvaluation.** `phase` follows a trial, `pc` its fiber inside the cache;
`computing` is the objective. The objective's reports are recorded at once
(`Report`), their events retained (`Retain`) and decided upon (`Decide`) later, by
fibers of the objective's own if it likes (`inflight`). `AnnounceRetry` and
`Retry` are the schedule; `Deadline` starts an interruption and `Interrupted` is
its taking effect wherever the fiber is: between attempts, waiting for a lock, in
a read, in a write that lands all the same, in the objective, which may die of
its finalizers. `Record` maps the exit to the trial's state.

**Collecting and TeacherTrace.** `trial` is each input's state in
`runCollecting`'s pool; its failure count is read when an input starts. An
example of `collect` is such an input: `Visit`, then per round `StartRound`,
`Announce` (the first to get there waits for the observer), `Attempt`, `Tell`;
`GiveUp` fails the example. A failed observer is noticed at the next check and
not by the example that told it. `CompleteRound` and `Conclude` follow the pool.
`late` counts the attempts begun after the collection had stopped.

**Brackets.** `Plan` computes the brackets from the maximal resource, the
reduction factor and the top level, which the code finds by floating-point
logarithms and which is an input here. `StartBracket` and `NextRound` suggest configurations,
`Take` numbers a trial and asks whether to skip it, `Reserve` enters it in the
history, `Complete` and `Miss` end it; `NextRound` ranks what completed (ties by
place), takes the best and fills up. Configurations are named by their place in
the sampler's stream. `previous`, `seen` and `late` are history variables.

## 3. Runs

| Run | Instance | Checks |
| --- | --- | --- |
| `recording` | two callers, two runs, two digests, two identities, two payloads, three lines, with fairness; data symmetric (105,613 states) | `RecordsReadable`, `CacheCoherent`, `AckedDurable`, `ReplayExact`, `DamageIsFinal`, `ImplementsEventLog`, `CallsReturn` |
| `evaluation` | four inputs, three at a time, with fairness (244,376) | `ViewTruthful`, `ResultMatchesView`, `NothingLeftRunning`, `LostObserverLeftAlone`, `AdmissionClosedFirst`, `ImplementsView`, `RunEnds` |
| `asktell` | two fibers, two trials, two values, one interruption, with fairness (1,091,667) | `TypeOK`, `HistoryIsJournaled`, `EventsTruthful`, `CompletionSealsStream`, `BestIsCurrent`, `ImplementsLedger`, `BudgetCompletes` |
| `asktell_transitions` | a space of one configuration | violation of `TransitionsLegal` |
| `asktell_announced` | as `asktell`, no interruption | violation of `OutcomesAnnounced` |
| `optimization` | two workers, two trials a leg, two legs, three configurations, trials that complete or fail, with fairness (1,293,930) | `TypeOK`, `OutcomesKept`, `DrawsNotRepeated`, `CheckpointSound`, `CostBounded`, `LegsAreLedgers`, `LegsEnd` |
| `optimization_failure` | one leg | violation of `FailuresCheckpointed` |
| `cache` | three fibers, one key, two values; symmetric (13,330) | `OneAtATime`, `LookupCoherent`, `ImplementsStore` |
| `trials` | two trials of one configuration, one reporting two steps, one retry, with fairness (697,868) | `OneValuePerConfig`, `ReportsTruthful`, `NothingLeftBehind`, `TrialsEnd` |
| `teacher` | three examples, two at a time, two rounds, two errors allowed (205,621) | `HaltBounded`, `ResultTruthful` |
| `teacher_deaf` | as `teacher` | violation of `DeafStartsNothing` |
| `brackets` | both modes, three plans, two trials at a time, two values, with fairness (394,273) | `PromotesBest`, `PlanFollowed`, `ScheduleEnds` |

The types of `Recording`, `Evaluation` and `KeyedCache` are proved (section 5) and
so are not checked again.

**What they show.** `recording`: whatever sequence of failed, repeated and
interrupted writes and restarts made the file, its complete lines are acceptable
to the strict reader, a receipt stays true, a stale index is never used, and a
replay is exact though its two reads are apart and checkpoints may regress.
`evaluation`: a reader of the retained events is never misled about which
evaluator was called or what it produced; success implies a complete view; the
termination names the trial that died; a failing observer is left alone, and by the
time its permit is free the serializer that others wait for is closed to them.
`asktell`: journal before history before event, whoever is interrupted and
whichever append loses its acknowledgment; and the budget check outside the
transaction does not let the last two tells both pass by the completion. A
completion in the stream means that the study has ended; it is not the last event,
since calls on their way offer theirs until the queue ends. However many publish,
there is one, but for one more for each publisher that an interruption cut off
between its event and the queue's end (`CompletionSealsStream`). What else an
interruption may take (the rest of a tell, and with it the completion) is excepted
in `BestIsCurrent` and `BudgetCompletes` by name.
`optimization`: no outcome is lost by a failure, crash or
resumption, the sampler never redraws the position of an outcome, every
checkpoint ever written can be resumed from with the journal of any later
moment, workers overshoot the cost by at most one trial each, and every leg ends.
`cache`: semaphores that come and go with their users still exclude, failed writes
leave nothing local that the store contradicts, and what the callers see is a store
of atomic operations. `trials`: a late answer or defect is never dropped for the
deadline and the deadline leaves nothing behind, attempts that report again do not
make events tell a step twice, and trials that share a configuration complete with
one value. `teacher`: how far a stop may be overshot, and that the answer is what
the observer was told. `brackets`: promotion, numbering and the reported bests
survive failures and stops, and every bracket passes.

**Why the bounds are enough.** Every race in this code is between two calls or
between a call and a crash, failure or interruption; a third party shows up only
where a place is waited for, hence three concurrent trials and a fourth input in
`evaluation`. Two runs in one file show that cursors and identities are separate;
three lines hold an opening, an event and a checkpoint or a second event. Two
legs show a resumption, and since a first leg may start from the empty
checkpoint of an interrupted one, the second also replays a journal tail over a
checkpoint. In `cache` one fiber can hold a permit, one wait for it and one come
when the first has left, which is all a semaphore that is removed and made anew
can meet; keys do not interact. In `trials` a second trial holds or waits for the
key of the first, and two reports of one trial are on their way at once. In
`teacher` the third example starts when the others are in different rounds, and two
failures at once overshoot the limit. In `brackets` the plans of (2, 2), (3, 3) and
(4, 2) have two and three levels, a round that promotes two, and last brackets of
several rounds of one. Two values are what an incumbent can be compared with; one
interruption is enough to lose any single step. In `optimization` trials complete or fail;
a trial cut off by its timeout (`Cancelled`) is recorded by the same steps as a failed
one, and the proofs leave `Endings` open. `MaxLines`, `MaxLegs`, `Interrupts` and
`Endings` are bounds in guards and not in the code. `MtimeKnown` is a
property of the platform: with `FALSE` the cache is never used. The proofs
hold for any bounds.

**Deadlock** is not checked: an evaluation, a handle, a leg and (by `MaxLines`)
a recording stop when they are done; that they do get there is what the
liveness properties say.

**Symmetry** is used for the fibers of `cache`, a run without liveness properties.
`recording` checks liveness and so is symmetric only in
its data (runs, digests, identities, payloads): neither its fairness nor
`CallsReturn` names any of these, so a behaviour and its image under a permutation
of the data take the same fair steps for the same callers.

**Fairness.** The runtime resumes a fiber that can go on (weak fairness), and
the semaphores of Effect admit their waiters first come, first served, so that a
caller that waits for a permit that is given back again and again gets it (strong
fairness on the steps that take it). A write, a stat, an observer, an evaluator
and an objective return, one way or the other: the code has no timeout of its own
around the first four, and says so (`Evaluation.ts:290`); an objective's
evaluation may be bounded by `trialTimeout`. `TrialEvaluation` has such a
deadline and assumes much less: only that the trial's own pool fiber begins, that its
clock runs, that an interruption is served and an outcome recorded; the objective,
the store and the sink may hang, its own or that of the trial that holds its key
(`PoolFiber`). In `Brackets` objectives return and fibers go on, and in
`OptimizationRun` evaluations and appends return and as long as some fiber of the
leg can go on, one does. Crashes, interruptions, requests and
new calls are never assumed to happen.

**Mutants.** Every property of a passing run is paired in `PROJECT.json` with a
plausible mistake in the code (the definitions commented `Variant`), and TLC
finds the property violated when the mistake is made.

## 4. Disagreements met

* `asktell_transitions`: `publishCompletion` asks `Study.modify` for the final
  lifecycle without looking at the current one (`askTellLifecycle.ts:83`). A
  `cancel` after the budget has completed the handle, or losing the race with
  it, asks for `Completed -> Cancelled` and dies, where `Study.ts:77` calls this
  a programmer invariant violation and `askTell.ts:193` lets `cancel` be repeated.
* `asktell_announced`: a tell records its trial in a transaction and offers its
  event afterwards; a completion published by another fiber in between ends the
  queue, and the event is dropped, where `askTellFinalization.ts:87` says the
  events are emitted and `askTellLifecycle.ts:67` that completion drains.
* `optimization_failure`: after the study has become `Completed`, a failure to
  announce or persist the completion, or an interruption, makes
  `withRuntimeCheckpoint` ask for `Completed -> Failed` (or `Cancelled`); the
  transaction dies and the checkpoint that `runtime.ts:66` promises is not written.
* `teacher_deaf`: `TeacherTrace.ts:228` says that no new attempts start after the
  first observer failure. The example that announced a round to the observer does
  not look at what came of it and attempts all the same, as does any other that
  had passed the check; `HaltBounded` bounds these by the concurrency.

In the passing runs these behaviours are part of the model (`died`, a dropped
`Offer`, the phase `"died"`): the other properties hold in their presence.

Three more observations, which no run states as a violated property because no
document promises the contrary in so many words:

* The objective cache keeps what the objective of a trial returned also when the
  trial was pruned, or ran at a bracket's small resource (`ObjectiveCache.ts:134`).
  A promoted configuration is then not evaluated at the larger resource but
  answered with the value it has.
* A BOHB exploration makes a random sampler of the plan's seed and draws from it
  once (`suggest.ts:79`): every exploration of a run is one configuration, which a
  bracket's first round may consist of. `random.ts:16` speaks of one persistent
  stream, which is true of each sampler.
* `sMaxFrom` (`scheduler.ts:30`) rounds down a quotient of two rounded
  logarithms, which for 1000 and 10 is below 3: the plan lacks a bracket. The top
  level is therefore part of the topologies of `Brackets`: the run gives its three
  plans the levels that the doubles give, which are the logarithms, and the theorems
  hold for shorter plans, too.

## 5. Proofs

`RecordingProofs` proves for every set of callers, runs, digests, identities and
payloads, and any bound on the file, from `RecordingAssumption` alone (no caller
is `None`; the bound is a natural number):

| Theorem | Says |
| --- | --- |
| `TypesHold`, `InvariantHolds` | `Spec => []TypeOK`, `Spec => []IInv` |
| `RecordsStayReadable`, `CacheStaysCoherent`, `ReceiptsDurable`, `ReplayIsExact` | the safety invariants of the run `recording` |
| `DamageStays` | `Spec => [][torn => UNCHANGED <<file, torn>>]_vars` |
| `RecordingIsEventLog` | `Spec => Log!Spec`: the recording implements `EventLog` |

The invariants are not inductive as they stand. That complete lines stay
acceptable needs to know that the line being written was judged against the very
records it follows: between the decision and the write the caller holds the
permit, so its `staged` index is the file plus its record (`CallInv`). That an
event's cursor determines it needs the numbering of a run's events to be a
bijection with `1..Size` (`Numbered`), and that replay is exact needs every
*checkpoint in the file* to be exact (`FileInv`), since a caller starts from
whichever is latest. The cache is coherent because a write in progress is the
only thing that may make it stale, and it is dropped or replaced by the same
call (`CacheInv`); `CacheHit` compares the length and the torn end, which only
grow. `IInv` joins these; the proof has one lemma per action and, for the
append itself, lemmas about `Append`, `SubSeq` and cardinalities of the sets of
positions (`RetainedAppend`, `NumberedAppend`, `ExactAppend`, `LatestAppend`).
The refinement then needs only `IInv`: a step that adds a line is a `Commit`, one
that grants a receipt is an `Acknowledge`, all others stutter.

`EvaluationProofs` proves for any number of inputs and any positive concurrency,
from `EvaluationAssumption` alone (which also says that `None` is no outcome, cause
or result):

| Theorem | Says |
| --- | --- |
| `TypesHold`, `InvariantHolds` | `Spec => []TypeOK`, `Spec => []IInv` |
| `ViewIsTruthful`, `ResultAgreesWithView`, `NothingIsLeftRunning` | the safety invariants of the run `evaluation` |
| `LostIsLeftAlone`, `ClosesAdmissionFirst` | its action properties |
| `EvaluationImplementsView` | `Spec => View!Spec`: the retained events add up to `EvaluationView` |

Here the strengthening says where everything is while a trial is at each of its
points (`TrialInv`): the record of a trial that waits to tell its start is still
"NotStarted", that of a trial between start and settlement "Unresolved", so that
an observation, whenever it is retained, finds the record `EvaluationView` asks
for. That a lost observer is left alone needs to know that whoever lost it still
holds the permit or has closed it (`ObserverInv`), and by the same fact a permit that
is given back after a refusal is that of a closed serializer; that a completion never follows
a loss, that a closed observer leaves a failing trial while the run goes on; and
that the cause reported is a defect, that an evaluation is only cut short once
there is an earlier cause, a closed observer or an interruption (`CauseInv`). The
concurrency bound is a fact about cardinalities (`ActiveGrows`, `ActiveKept`).

`KeyedCacheProofs`, for any fibers, keys and values, from `KeyedCacheAssumption`
(the special values are distinct and no value, fiber or call):

| Theorem | Says |
| --- | --- |
| `TypesHold`, `InvariantHolds` | `Spec => []TypeOK`, `Spec => []IInv` |
| `OperationsExcludeEachOther`, `LookupStaysCoherent` | the safety invariants of the run `cache` |
| `Linearizable` | `Spec => AsStore!Spec`: the cache implements `KeyedStore` |

Exclusion rests on `Current`: whoever refers to a semaphore refers to the one in the
registry, since the one that leaves removes it only when nobody else refers to it.
Given exclusion, what an operation has read is still true when it acts on it
(`Held`), which is what the refinement needs: a read takes effect when it answers, a
mutation when it lands.

`TrialEvaluationProofs`, for any trials, configurations, values, steps and length of
the retry schedule, from `TrialEvaluationAssumption`:

| Theorem | Says |
| --- | --- |
| `UsesCache` | `Spec => Cache!Spec`: every step is one of the cache or none of its |
| `OneValue`, `NothingLeft`, `ReportsAreTruthful` | the safety invariants of the run `trials` |

By `UsesCache` the theorems about the cache, instantiated, hold of the composition.
`OneValue` follows from `Kept`: since all trials only resolve, what one of them was
answered is still what the store holds when any other is. `ReportsInv` places each
step in one of three states: not reported, reported with its event not yet retained,
or told once with the decision that its report in flight will take.

`AskTellProofs`, for any fibers, budget, size of the space, bound on interruptions
and integers as values, from `AskTellAssumption` (`None` is no fiber, value or trial
number):

| Theorem | Says |
| --- | --- |
| `TypesHold`, `InvariantHolds` | `Spec => []TypeOK`, `Spec => []IInv` |
| `HistoryStaysJournaled`, `StreamStaysTruthful`, `CompletionSeals`, `BestStaysCurrent` | the safety invariants of the run `asktell` |
| `HandleIsLedger` | `Spec => Ledger!Spec`: the handle implements `TrialLedger` |

That a trial is decided once rests on `Deciding`: whoever holds the semaphore found
the study running and its trial pending, and nobody else changes either meanwhile.
That an illegal end does not disturb the ledger rests on `GivenUp`: a cancelled study
has nothing pending, so cancelling it again changes nothing. The events are offered
outside the transaction, by fibers that overtake each other; `Story` therefore says
what each fiber still owes: a trial whose start is not yet told is known to nobody
else, and a fiber that recorded an outcome is the only one that speaks for its trial
until it has told all of it. `Sealed` does the same for the completion, and `Single`
counts: a completion belongs to the publisher that closed the queue, to the one about
to, or to one that was cut short (`Cut`). All of these hold with interruptions; only
`BestIsCurrent` needs that there were none.

`OptimizationRunProofs`, for any finite set of workers, trials per leg, size of the
space, cost budget and number of legs, from `RunAssumption` (`None` is no worker, at
least one leg, `Endings` among the outcomes of an evaluation) and `NoneAssumption` (`None` is no snapshot and no job):

| Theorem | Says |
| --- | --- |
| `TypesHold`, `InvariantHolds` | `Spec => []TypeOK`, `Spec => []IInv` |
| `OutcomesStayKept`, `DrawsStayNew`, `CheckpointsStaySound`, `CostStaysBounded` | the safety invariants of the run `optimization` |
| `LegsStayLedgers` | `Spec => LegsAreLedgers`: within a leg, a run is a `TrialLedger` |

What survives a crash must be related without the study: `Durable` says that a
checkpoint cuts the journal in two. Of the trials it numbers (below `Floor`) it
agrees with the journal on the draws and has drawn them all; those beyond came later
and were drawn later (`SavedOK`); and every outcome ever recorded is on its side of the
cut (`KeptOK`). Sampler positions do not fall along the journal (`JournalOK`), so the
last record's position, which `Resume` takes, is past every draw. `AliveOK` is what
makes a new checkpoint such a cut: the study has all that is journaled, and when a
checkpoint is written nothing is pending. An append may be committed and reported as
failed; the journal and a later checkpoint then disagree on the trial's outcome
(completed there, cancelled here) but not on its draw, and this is why `SavedOK`
speaks of draws. For the cost, `Banked` is what the next leg will find completed; a
worker spends it only between its admission and its record, and admission is refused
once there is too much (`Budget`).

`TeacherTraceProofs` speaks of `Collecting` for any inputs, concurrency and budget,
and of `TeacherTrace` for any number of examples and rounds, any concurrency and any
limit, from `TeacherTraceAssumption`. Its constant `Budget` is the failure budget of
an evaluation: the theorem about `Collecting` holds for any natural number; those
about `collect` assume `CollectBudget`, that it is the `Tolerated` which `collect`
passes to `runCollecting`.

| Theorem | Says |
| --- | --- |
| `OvershootIsBounded` | `Collecting`'s failures stay within the budget plus the concurrency, and its count is right |
| `CollectsExamples` | `Spec => Evaluation!Spec`: visiting the examples is a behaviour of `Collecting` |
| `HaltIsBounded`, `ResultIsTruthful` | the safety invariants of the run `teacher` |

The bound on the evaluation's failures is not inductive; what is kept is that, once
the budget is spent, failures and running evaluations together are within it
(`Pending`): nothing starts any more, and each failure gives up a place. `Bounds` has
the same shape for the attempts: examples away from `"idle"` are those the pool runs
(`Manned`), so no more than the concurrency; once the collection stops nothing new is
announced, so the attempts begun late and the examples still waiting for the observer
are together within the concurrency (`Lateness`); and the failed attempts with those
that may still fail are within the limit, less one, plus the concurrency
(`Overshoot`): the attempt that reached the limit has given its own place up.

`Truth` is what makes the answer true, and no part of it holds alone. Unless the
observer has failed, an example's evidence is what was acknowledged and at most the
one attempt it is about to tell of (`Evidence`); the rounds announced and those being
announced are all that have started, each once (`Announced`). The failed attempts
are counted one by one, and the limit, once reached, has an example that is failing
for it or has failed (`Counting`): this is why a collection that returns its evidence
cannot have reached it. The counts of the rounds come after the evaluation, when the
evidence no longer changes (`Completing`). The sums over examples are cardinalities of
sets of pairs of an example and a round (`Attempts`), so that a step adds one element
and no induction over the examples is needed.

`BracketsProofs`, for any plans, any concurrency, any number of dimensions and any
natural numbers as values, from `BracketsAssumption` (a maximal resource of at least
one, a reduction factor of at least two and a top level, all integers):

| Theorem | Says |
| --- | --- |
| `PromotesTheBest`, `PlanIsFollowed` | the safety invariants of the run `brackets` |
| `PlanHalves` | what `buildBrackets` makes for every top level whose power of the factor is within the maximum, be it the logarithm or what rounding left of it: a bracket for each level, rounds never empty and never larger than the one before, the resource multiplied by the factor and never above the maximum, each bracket one round shorter than the one before |
| `ScheduleDescends` | every step of the schedule leaves less of the plan ahead (`Ahead`, a natural number) |
| `NeverStuck` | until the schedule has ended or failed, the guard of one of its steps holds |

Neither invariant is inductive. For the promotion, `Before` is shown to be a total
order on the completed trials (`BeforeOrders`), so their ranks differ and every rank
is taken (an injection of a finite set into one of its size): the first few in rank
are as many, and nothing else is better (`FirstAreBest`). That what fills a round up
is new needs `Drawn`: no configuration is ahead of the stream. For the numbers,
`Taken` cuts the pool in two places: trials beyond `w` have no number, those from
`a + 1` to `b` are being reserved and have the numbers that follow the history's, and
what lies between was passed over, which only a stop allows; the next number is that
of the rounds that are over (`Passed`, a sum over the plan) plus `w`. Since what is
being reserved when a stop comes is active, no more than the concurrency is late.
`Standing` says that the bests of the rounds so far stand for every value completed
in them: each is beaten or met by one of the bests, or is of this round. The sums
are recursive functions; that they exist and grow is proved by taking a least
counterexample, which needs no induction theorem.

`Ahead` counts the turns that are left (starting a bracket, handing over, completing
it) and up to three steps of every trial of the plan: to be taken, reserved and
evaluated. A trial that is skipped still has its number taken, a round that nobody
completed is still filled up from the plan's size, and a stop changes none of this: it
happens once. `CanGo` lists the guards of the steps. The two theorems are the content
of `ScheduleEnds`; what is left to TLC is that a step that can be taken is.

Only model-checked: liveness (`CallsReturn`, `RunEnds`, `BudgetCompletes`,
`LegsEnd`, `TrialsEnd`, `ScheduleEnds`), which the provers cannot do under fairness;
of `ScheduleEnds`, `ScheduleDescends` and `NeverStuck` prove all but the fairness step.
Every safety invariant that a passing run checks is a theorem.

## 6. What is not modelled

* *In the modelled parts.* A write of the operating system that lands after its
  caller was interrupted and another write has begun; edits of the file by
  others; loss of flushed data. Snapshots of an open handle: `snapshot` reads the
  sampler before the history, so a trial asked in between is in a snapshot whose
  sampler has not drawn it (the package's README excludes unfinished concurrent
  reservations). Prior trials, multi-objective values, event streams of a run,
  the repetition of an objective for its variance; a trial without a cache is one
  whose configuration nobody shares. Which of two completion reasons the stream names: the
  reference keeps the first, the event carries that of the fiber that publishes.
  An `ask` interrupted between its reservation and its return leaves a trial
  pending that nobody can tell; `BudgetCompletes` is conditional on that. A crash
  before the first checkpoint leaves a journal that `resumeFromStorage` refuses.
  The count of trials without improvement, updated and read at different steps of
  concurrent workers. How the prompt optimizers use what `collect` returns. A
  resumed scheduled run starts its plan over at the next trial number; `Brackets`
  starts from zero. A fractional resource or reduction factor, which the scheduler
  accepts; of a plan, though, all theorems but `PlanHalves` use only that its
  brackets have rounds of natural sizes (`Planned`), which rounding ensures.
* *Parts left out.* Floating-point numerics (`effect-math`, TPE, CMA-ES, GP-BO,
  hypervolumes), byte algorithms and cryptography, parsing and rendering of
  prompts, text layout, provider clients and the web site: no state of their own
  to interleave, or out of TLC's reach.

## 7. Plan

1. Done: `EventLog`, `Recording`, `RecordingProofs`; `TrialLedger`, `AskTell`,
   `AskTellProofs`, `OptimizationRun`, `OptimizationRunProofs`; `EvaluationView`, `Evaluation`, `EvaluationProofs`;
   `KeyedStore`, `KeyedCache`, `KeyedCacheProofs`; `TrialEvaluation`,
   `TrialEvaluationProofs`; `Collecting`, `TeacherTrace`, `TeacherTraceProofs`;
   `Brackets`, `BracketsProofs`.
2. Prove next: that a run's legs are behaviours of the trial evaluation's outcomes
   (`OptimizationRun` over `TrialEvaluation`), and that `Brackets` reserves as
   `TrialLedger` does.
3. Model next: pure algorithms against reference definitions
   (`Stop.preferredRequest`: the selection is the minimum of all requests whatever
   their order; the Pareto frontier; the grid's enumeration;
   `OptimizationSnapshot.deriveFields`).
