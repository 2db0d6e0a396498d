-------------------------------- MODULE Brackets -------------------------------
(***************************************************************************)
(* Scheduled optimization (effect-search, runtime/scheduler and its rounds): *)
(* Hyperband's brackets run one after the other.  A bracket starts with many *)
(* configurations at a small resource; each round evaluates its              *)
(* configurations in a bounded pool and hands the best of them, filled up    *)
(* with new suggestions, to the next, which is smaller and has more resource.*)
(* BOHB differs in how configurations are suggested.  A stop request or a    *)
(* completion reason may appear at any moment; what was not reserved by then *)
(* is passed over.  What evaluating a trial does is TrialEvaluation.tla's.   *)
(***************************************************************************)
EXTENDS Naturals, Sequences, FiniteSets, SequencesExt

CONSTANTS
  Topologies,   \* the plans to choose from: <<maxResource, reductionFactor, sMax>>
  Modes,        \* of "hyperband" and "bohb"
  Concurrency,  \* how many trials are evaluated at once
  Dimensions,   \* of the search space
  Values,       \* of the objective, the better the smaller
  None

ASSUME BracketsAssumption ==
  /\ \A p \in Topologies : p[1] \in Nat \ {0} /\ p[2] \in Nat \ {0, 1} /\ p[3] \in Nat
  /\ Modes \subseteq {"hyperband", "bohb"}
  /\ Concurrency \in Nat \ {0} /\ Dimensions \in Nat
  /\ Values \subseteq Nat /\ None \notin Nat

-------------------------------------------------------------------------------
(* Topology (internal/scheduler.ts)                                         *)

(* pow; a recursive function, which proofs can unfold.                      *)
Power(b, n) ==
  LET power[i \in 0..n] == IF i = 0 THEN 1 ELSE b * power[i - 1] IN power[n]

CountFromRound(n, eta, i) == Max({1, n \div Power(eta, i)})
ResourceFromRound(r, eta, i) == Max({1, r * Power(eta, i)})

(* The top level, sMax, is floor(log(maxResource) / log(reductionFactor)) as *)
(* the runtime's doubles give it, which may be less than the logarithm; it  *)
(* belongs to the topology, so that every value of it has its plan.         *)
BracketAtLevel(R, eta, sMax, level) ==
  LET share == (sMax + 1) * Power(eta, level)
      n == Max({1, (share + level) \div (level + 1)})
      r == Max({1, R \div Power(eta, level)}) IN
  [i \in 1..(level + 1) |->
     [nConfigs |-> CountFromRound(n, eta, i - 1), resource |-> ResourceFromRound(r, eta, i - 1)]]

Plan(R, eta, sMax) ==
  [i \in 1..(sMax + 1) |-> BracketAtLevel(R, eta, sMax, sMax + 1 - i)]

(* The sums of the first numbers of a sequence.                             *)
Sums(s) ==
  LET sum[i \in 0..Len(s)] == IF i = 0 THEN 0 ELSE sum[i - 1] + s[i] IN sum

Sizes(rounds) == [i \in 1..Len(rounds) |-> rounds[i].nConfigs]
RoundTrials(rounds) == Sums(Sizes(rounds))
BracketTrials(brackets) ==
  Sums([b \in 1..Len(brackets) |-> RoundTrials(brackets[b])[Len(brackets[b])]])
TotalTrials(brackets) == BracketTrials(brackets)[Len(brackets)]

-------------------------------------------------------------------------------
VARIABLES
  plan, mode,      \* the scheduler: its brackets, and how it suggests
  bracket, round,  \* where it is: the rounds of one bracket at a time
  phase,           \* "bracket" (to start), "round" (running), "ended" or "failed"
  pool,            \* the round's trials, in order
  trialNumber,     \* the next trial's number
  completedCount,  \* completed trials of the rounds so far
  drawn,           \* how far the sampler's stream is drawn
  bests,           \* the best value of each round of the bracket so far
  stopped,         \* is there a stop request or a completion reason?
  history,         \* the numbers of the trials in the study's history
  announced,       \* the best value in the last BracketCompleted event
  previous,        \* history variable: the trials of the last round
  seen,            \* history variable: the values completed in the bracket
  late             \* history variable: trials reserved although stopped

planVars == <<plan, mode>>
placeVars == <<bracket, round, phase>>
roundVars == <<completedCount, drawn, bests, announced, previous>>
vars == <<planVars, placeVars, roundVars, pool, trialNumber, stopped, history, seen, late>>

Rounds == plan[bracket]

Waiting(config) == [config |-> config, state |-> "waiting", number |-> None, value |-> None]
Pooled(configs) == [i \in DOMAIN configs |-> Waiting(configs[i])]

Init ==
  /\ plan \in {Plan(t[1], t[2], t[3]) : t \in Topologies} /\ mode \in Modes
  /\ bracket = 1 /\ round = 0 /\ phase = "bracket"
  /\ pool = <<>> /\ previous = <<>> /\ bests = <<>>
  /\ trialNumber = 0 /\ completedCount = 0 /\ drawn = 0
  /\ stopped = FALSE
  /\ history = {} /\ seen = {} /\ late = 0
  /\ announced = None

-------------------------------------------------------------------------------
(* Suggestions (suggestByMode)                                              *)

(* All that is suggested between two rounds has the same trial number and    *)
(* the same completed count in view, hence one choice for all of it.         *)
MayExplore(count) == mode = "bohb"
MayExploit(count) == mode = "bohb" => count >= Dimensions + 1

(* An exploration makes a random sampler of the plan's seed anew and draws   *)
(* its first configuration; other configurations are named by their place in *)
(* the stream of the plan's sampler.                                        *)
Exploration == 0

Suggest(n, count, suggestion) ==
  \/ /\ MayExplore(count)
     /\ suggestion = [i \in 1..n |-> Exploration]
     /\ UNCHANGED drawn
  \/ /\ MayExploit(count)
     /\ suggestion = [i \in 1..n |-> drawn + i]
     /\ drawn' = drawn + n

-------------------------------------------------------------------------------
(* Trials of a round (runRound, runConfiguredTrial)                         *)

In(states) == {i \in DOMAIN pool : pool[i].state \in states}
Active == In({"reserving", "running"})

(* The pool takes the configurations in order.  A trial's number is taken    *)
(* before it is asked whether to skip it.                                   *)
Take(i) ==
  /\ phase = "round"
  /\ pool[i].state = "waiting"
  /\ \A j \in 1..(i - 1) : pool[j].state # "waiting"
  /\ Cardinality(Active) < Concurrency
  /\ trialNumber' = trialNumber + 1
  /\ pool' = [pool EXCEPT ![i].number = trialNumber,
                          ![i].state = IF stopped THEN "skipped" ELSE "reserving"]
  /\ UNCHANGED <<planVars, placeVars, roundVars, stopped, history, seen, late>>

(* The study's permit is first come, first served.                          *)
Reserve(i) ==
  /\ pool[i].state = "reserving"
  /\ \A j \in 1..(i - 1) : pool[j].state # "reserving"
  /\ pool' = [pool EXCEPT ![i].state = "running"]
  /\ history' = history \cup {pool[i].number}
  /\ late' = IF stopped THEN late + 1 ELSE late
  /\ UNCHANGED <<planVars, placeVars, roundVars, trialNumber, stopped, seen>>

Complete(i, x) ==
  /\ pool[i].state = "running"
  /\ pool' = [pool EXCEPT ![i].state = "completed", ![i].value = x]
  /\ seen' = seen \cup {x}
  /\ UNCHANGED <<planVars, placeVars, roundVars, trialNumber, stopped, history, late>>

(* It failed, was pruned or was cancelled by its deadline.                  *)
Miss(i) ==
  /\ pool[i].state = "running"
  /\ pool' = [pool EXCEPT ![i].state = "missed"]
  /\ UNCHANGED <<planVars, placeVars, roundVars, trialNumber, stopped, history, seen, late>>

-------------------------------------------------------------------------------
(* Rounds and brackets (runRound, runBracketRounds, runBracketsByIndex)     *)

Best(values) == IF values = {} THEN None ELSE Min(values)

StartBracket ==
  /\ phase = "bracket" /\ bracket <= Len(plan)
  /\ \E configs \in {[i \in 1..Rounds[1].nConfigs |-> Exploration],
                     [i \in 1..Rounds[1].nConfigs |-> drawn + i]} :
       /\ Suggest(Rounds[1].nConfigs, completedCount, configs)
       /\ pool' = Pooled(configs)
  /\ phase' = "round" /\ round' = 1
  /\ seen' = {} /\ bests' = <<>> /\ previous' = <<>>
  /\ UNCHANGED <<planVars, bracket, completedCount, announced, trialNumber, stopped, history, late>>

Completed == In({"completed"})
NextRoundSize == IF round < Len(Rounds) THEN Rounds[round + 1].nConfigs ELSE 0

(* Variant: completed trials are taken in the order they were tried.         *)
BeforeUnranked(i, j) == i < j

(* sortByDirection: Arr.sort keeps the order of equals.                     *)
Before(i, j) ==
  \/ pool[i].value < pool[j].value
  \/ pool[i].value = pool[j].value /\ i < j

Ranked(k) == CHOOSE i \in Completed : Cardinality({j \in Completed : Before(j, i)}) = k - 1

Selected ==
  [k \in 1..Min({NextRoundSize, Cardinality(Completed)}) |-> pool[Ranked(k)].config]

(* Variant: a round is not filled up.                                       *)
MissingNone == 0

Missing == NextRoundSize - Len(Selected)

(* Variant: a round waits for every one of its trials to be evaluated.      *)
SettledRun == In({"completed", "missed"}) = DOMAIN pool

Settled == In({"waiting", "reserving", "running"}) = {}

Summarised ==
  /\ completedCount' = completedCount + Cardinality(Completed)
  /\ bests' = Append(bests, Best({pool[i].value : i \in Completed}))
  /\ previous' = pool

NextRound ==
  /\ phase = "round" /\ Settled
  /\ round < Len(Rounds)
  /\ Summarised
  /\ \E fill \in {[i \in 1..Missing |-> Exploration], [i \in 1..Missing |-> drawn + i]} :
       /\ Suggest(Missing, completedCount', fill)
       /\ pool' = Pooled(Selected \o fill)
  /\ round' = round + 1
  /\ UNCHANGED <<planVars, bracket, phase, announced, trialNumber, stopped, history, seen, late>>

CompleteBracket ==
  /\ phase = "round" /\ Settled
  /\ round = Len(Rounds)
  /\ Summarised
  /\ announced' = Best(Range(bests') \ {None})
  /\ pool' = <<>>
  /\ bracket' = bracket + 1 /\ round' = 0
  /\ phase' = IF bracket = Len(plan) THEN "ended" ELSE "bracket"
  /\ UNCHANGED <<planVars, drawn, trialNumber, stopped, history, seen, late>>

(* A policy's reason, the duration's end, or a request.                     *)
Stop ==
  /\ phase \in {"bracket", "round"} /\ ~stopped
  /\ stopped' = TRUE
  /\ UNCHANGED <<planVars, placeVars, roundVars, pool, trialNumber, history, seen, late>>

(* A suggestion, an event or a journal append fails, or the run is           *)
(* interrupted, and with it the trials in the pool.                         *)
Fail ==
  /\ phase \in {"bracket", "round"}
  /\ phase' = "failed"
  /\ pool' = <<>>
  /\ UNCHANGED <<planVars, bracket, round, roundVars, trialNumber, stopped, history, seen, late>>

Trial(i) == Take(i) \/ Reserve(i) \/ Miss(i) \/ \E x \in Values : Complete(i, x)

Go == StartBracket \/ NextRound \/ CompleteBracket \/ \E i \in DOMAIN pool : Trial(i)

Next == Go \/ Stop \/ Fail

Spec == Init /\ [][Next]_vars

(* Objectives return.                                                       *)
FairSpec == Spec /\ WF_vars(Go)

-------------------------------------------------------------------------------
(* What a round hands to the next is the best it completed, whatever of it   *)
(* failed, was pruned or skipped: nothing dropped is better than anything    *)
(* promoted, what fills the round up was not in the round before, and the    *)
(* round is as large as planned.                                            *)
PromotesBest ==
  phase = "round" /\ round > 1 =>
    LET size == Rounds[round].nConfigs
        finished == {i \in DOMAIN previous : previous[i].state = "completed"}
        kept == Min({size, Cardinality(finished)}) IN
    /\ Len(pool) = size
    /\ \E best \in kSubset(kept, finished) :
         /\ {pool[i].config : i \in 1..kept} = {previous[i].config : i \in best}
         /\ \A i \in best, j \in finished \ best : previous[i].value <= previous[j].value
    /\ \A i \in (kept + 1)..size :
         \/ pool[i].config = Exploration
         \/ \A j \in DOMAIN previous : previous[j].config # pool[i].config

(* The plan is what is run: numbers are used once and without a gap although *)
(* skipped trials take some too, the pool is never larger than the           *)
(* concurrency, no more trials than those in the pool are reserved after a   *)
(* stop, each BracketCompleted names the best of all its rounds, and a run   *)
(* that nothing stopped has evaluated Scheduler.totalTrials trials.          *)
PlanFollowed ==
  /\ history \cup {pool[i].number : i \in In({"reserving"})}
       = 0..(Cardinality(history) + Cardinality(In({"reserving"})) - 1)
  /\ Cardinality(history) <= TotalTrials(plan)
  /\ Cardinality(Active) <= Concurrency
  /\ late <= Concurrency
  /\ phase \in {"bracket", "ended"} /\ bracket > 1 => announced = Best(seen)
  /\ phase = "ended" /\ ~stopped => Cardinality(history) = TotalTrials(plan)

(* A scheduled run ends, also when it is stopped with brackets to go: rounds *)
(* whose trials are all skipped pass.                                       *)
ScheduleEnds == <>(phase \in {"ended", "failed"})
===============================================================================
