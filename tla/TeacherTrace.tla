------------------------------ MODULE TeacherTrace -----------------------------
(***************************************************************************)
(* TeacherTrace.collect (effect-dsp): a teacher program attempts every       *)
(* example for up to MaxRounds rounds, several examples at once, until an    *)
(* attempt is accepted.  Attempts that fail count toward a limit; reaching   *)
(* it, or a failure of the awaited observer, stops the collection.  The      *)
(* examples are the inputs of Evaluation.runCollecting (Collecting.tla),     *)
(* which is to stop at the first example that fails.                         *)
(***************************************************************************)
EXTENDS Naturals, Sequences, FiniteSets, SequencesExt

CONSTANTS
  Examples,     \* how many examples there are
  Concurrency,  \* how many are attempted at once
  MaxRounds,    \* how often each may be attempted
  MaxErrors,    \* the limit on failed attempts
  Enough,       \* stopWhen holds of this many acceptances
  None

ASSUME TeacherTraceAssumption ==
  /\ Examples \in Nat /\ Concurrency \in Nat \ {0}
  /\ MaxRounds \in Nat /\ MaxErrors \in Nat /\ Enough \in Nat
  /\ None \notin {"Collected", "TooManyFailures", "Died"}

VARIABLES
  trial, failures, verdict,  \* the evaluation of the examples
  pc,        \* where each example is
  outcomes,  \* of each example's attempts so far
  live,      \* how many were accepted
  errors,    \* how many attempts failed
  exhausted, \* has the limit been reached?
  started,   \* how many rounds have started
  deaf,      \* has the observer failed?
  rounds,    \* the RoundStarted events it has acknowledged
  seen,      \* the attempts of each example that it has acknowledged
  counts,    \* the RoundCompleted events it has acknowledged
  late,      \* history: attempts begun although the collection had stopped
  result     \* how collect ended

evaluationVars == <<trial, failures, verdict>>
refVars == <<outcomes, live, errors, exhausted, started>>
observerVars == <<deaf, rounds, seen, counts>>
vars == <<evaluationVars, refVars, observerVars, pc, late, result>>

(* Variant: the evaluation tolerates what the collection does.              *)
ToleratedErrors == MaxErrors

(* "Only an exhausted maxErrors budget fails an example."                   *)
Tolerated == 0

Evaluation == INSTANCE Collecting WITH Inputs <- Examples, MaxFailures <- Tolerated

Init ==
  /\ Evaluation!Init
  /\ pc = [e \in 1..Examples |-> "idle"]
  /\ outcomes = [e \in 1..Examples |-> <<>>]
  /\ live = 0 /\ errors = 0 /\ exhausted = FALSE /\ started = 0
  /\ deaf = FALSE /\ rounds = <<>> /\ counts = <<>>
  /\ seen = [e \in 1..Examples |-> <<>>]
  /\ late = 0
  /\ result = None

Go(e, there) == pc' = [pc EXCEPT ![e] = there]

-------------------------------------------------------------------------------
(* The observer                                                             *)

(* An event is acknowledged, or the observer fails, which the example that   *)
(* emits it does not notice.                                                *)
Emit(variable, acknowledged) ==
  \/ acknowledged /\ UNCHANGED deaf
  \/ deaf' = TRUE /\ UNCHANGED variable

-------------------------------------------------------------------------------
(* Examples (visit)                                                         *)

(* Variant: the limit only fails the example that reaches it.               *)
HaltedByObserver == deaf

Halted == deaf \/ exhausted

(* Once it is stopped, or when there are enough acceptances, an example is   *)
(* collected without an attempt.                                            *)
Visit(e) ==
  /\ Evaluation!Start(e)
  /\ Go(e, IF Halted \/ live >= Enough THEN "visited" ELSE "turning")
  /\ UNCHANGED <<refVars, observerVars, late, result>>

Skip(e) ==
  /\ Evaluation!Skip(e)
  /\ UNCHANGED <<pc, refVars, observerVars, late, result>>

Round(e) == Len(outcomes[e])
Settled(e) == "accepted" \in Range(outcomes[e])

(* The collection stops here: the remaining rounds are passed over.         *)
Stop(e) ==
  /\ pc[e] = "turning"
  /\ Halted \/ Settled(e) \/ Round(e) = MaxRounds
  /\ Go(e, "visited")
  /\ UNCHANGED <<evaluationVars, refVars, observerVars, late, result>>

Begin(e) ==
  /\ Go(e, "attempting")
  /\ late' = IF deaf' \/ exhausted' THEN late + 1 ELSE late

(* startRound: the first example to reach a round announces it.             *)
StartRound(e) ==
  /\ pc[e] = "turning"
  /\ ~Halted /\ ~Settled(e) /\ Round(e) < MaxRounds
  /\ UNCHANGED <<evaluationVars, outcomes, live, errors, exhausted, observerVars, result>>
  /\ IF Round(e) >= started
     THEN started' = Round(e) + 1 /\ Go(e, "announcing") /\ UNCHANGED late
     ELSE UNCHANGED started /\ Begin(e)

(* The attempt begins whatever became of the announcement, and whatever      *)
(* stopped the collection meanwhile.                                        *)
Announce(e) ==
  /\ pc[e] = "announcing"
  /\ Emit(rounds, rounds' = Append(rounds, Round(e)))
  /\ UNCHANGED <<evaluationVars, refVars, seen, counts, result>>
  /\ Begin(e)

Reached == errors' >= MaxErrors

Attempt(e, outcome) ==
  /\ pc[e] = "attempting"
  /\ outcomes' = [outcomes EXCEPT ![e] = Append(@, outcome)]
  /\ live' = IF outcome = "accepted" THEN live + 1 ELSE live
  /\ errors' = IF outcome = "failure" THEN errors + 1 ELSE errors
  /\ LET spent == outcome = "failure" /\ Reached IN
       /\ exhausted' = (exhausted \/ spent)
       /\ Go(e, IF spent THEN "giving up" ELSE "telling")
  /\ UNCHANGED <<evaluationVars, started, observerVars, late, result>>

Acknowledge(e) ==
  Emit(seen, seen' = [seen EXCEPT ![e] = Append(@, Last(outcomes[e]))])

Tell(e) ==
  /\ pc[e] = "telling"
  /\ Acknowledge(e)
  /\ Go(e, "turning")
  /\ UNCHANGED <<evaluationVars, refVars, rounds, counts, late, result>>

(* Exhausted: the example fails once its event is told.                     *)
GiveUp(e) ==
  /\ pc[e] = "giving up"
  /\ Acknowledge(e)
  /\ Evaluation!Fail(e)
  /\ Go(e, "idle")
  /\ UNCHANGED <<refVars, rounds, counts, late, result>>

Leave(e) ==
  /\ pc[e] = "visited"
  /\ Evaluation!Complete(e)
  /\ Go(e, "idle")
  /\ UNCHANGED <<refVars, observerVars, late, result>>

-------------------------------------------------------------------------------
(* The collection                                                           *)

Finish ==
  /\ Evaluation!Finish
  /\ UNCHANGED <<pc, refVars, observerVars, late, result>>

(* A defect, of an attempt or the observer, or an interruption.             *)
Die ==
  /\ Evaluation!Die
  /\ pc' = [e \in 1..Examples |-> "idle"]
  /\ result' = [tag |-> "Died"]
  /\ UNCHANGED <<refVars, observerVars, late>>

(* The attempts of each example, by round, that came out so.                *)
Attempts(of, kinds) ==
  {a \in (1..Examples) \X (1..MaxRounds) : a[2] \in DOMAIN of[a[1]] /\ of[a[1]][a[2]] \in kinds}

(* The evidence of completed trials, by kind, through a round.              *)
Collected(kinds, round) ==
  Cardinality({a \in Attempts(outcomes, kinds) :
    a[1] \in Evaluation!In({"completed"}) /\ a[2] <= round})

(* With the evaluation over, an observer that failed is reported first;     *)
(* else rounds complete one by one, unless the evaluation failed.           *)
Concluding == result = None /\ verdict \in {"Collected", "TooManyFailures"}

CompleteRound ==
  LET n == Len(counts) + 1 IN
  /\ Concluding /\ ~deaf /\ verdict = "Collected"
  /\ n <= started
  /\ Emit(counts, counts' = Append(counts,
       [accepted |-> Collected({"accepted"}, n), rejected |-> Collected({"score", "failure"}, n)]))
  /\ UNCHANGED <<evaluationVars, refVars, pc, rounds, seen, late, result>>

Conclude ==
  /\ Concluding
  /\ result' =
       CASE deaf -> [tag |-> "ObserverFailed"]
         [] ~deaf /\ verdict = "TooManyFailures" ->
              [tag |-> "TooManyErrors", count |-> errors]
         [] OTHER -> [tag |-> "Collected", evidence |->
              [e \in Evaluation!In({"completed"}) |-> outcomes[e]]]
  /\ (~deaf /\ verdict = "Collected") => Len(counts) = started
  /\ UNCHANGED <<evaluationVars, refVars, observerVars, pc, late>>

Example(e) ==
  \/ Visit(e) \/ Skip(e) \/ Stop(e) \/ StartRound(e) \/ Announce(e)
  \/ \E outcome \in {"accepted", "score", "failure"} : Attempt(e, outcome)
  \/ Tell(e) \/ GiveUp(e) \/ Leave(e)

Next ==
  \/ \E e \in 1..Examples : Example(e)
  \/ Finish \/ Die \/ CompleteRound \/ Conclude

Spec == Init /\ [][Next]_vars

-------------------------------------------------------------------------------
(* "Already-running examples drain; no new attempts start after the first    *)
(* observer failure" (TeacherTrace.ts:228): no attempt begins in a step       *)
(* after which the observer has failed.                                     *)
DeafStartsNothing ==
  [][\A e \in 1..Examples : pc'[e] = "attempting" /\ pc[e] # "attempting" => ~deaf']_vars

(* How far the code departs from that: once the collection has stopped, for   *)
(* the observer or at the limit, at most one attempt per fiber still begins, *)
(* that of an example which had passed the check and waited for the          *)
(* observer; attempts fail no more often than the limit allows beside those  *)
(* that were running, and examples no more often than the evaluation does.   *)
HaltBounded ==
  /\ late <= Concurrency
  /\ MaxErrors > 0 => errors <= MaxErrors - 1 + Concurrency
  /\ Evaluation!OvershootBounded

(* What collect answers is what its observer was told, though examples are   *)
(* attempted, told and given up in any order: an error names every failed    *)
(* attempt and reports the limit truly; a collection holds all the evidence, *)
(* round by round; and no failure of the observer goes unreported.           *)
Told(kind) == Cardinality(Attempts(seen, {kind}))

ResultTruthful ==
  result # None /\ result.tag # "Died" =>
    /\ result.tag = "ObserverFailed" <=> deaf
    /\ result.tag = "TooManyErrors" =>
         result.count = Told("failure") /\ result.count >= MaxErrors
    /\ result.tag = "Collected" =>
         /\ result.evidence = seen
         /\ Told("failure") < MaxErrors \/ Told("failure") = 0
         /\ Range(rounds) = 0..(started - 1) /\ Len(rounds) = started
         /\ started > 0 =>
              Last(counts) = [accepted |-> Told("accepted"),
                              rejected |-> Told("score") + Told("failure")]
===============================================================================
