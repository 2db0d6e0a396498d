--------------------------- MODULE TeacherTraceProofs --------------------------
(***************************************************************************)
(* Theorems about Collecting, for any number of inputs, any concurrency and  *)
(* any failure budget, and about TeacherTrace, for any number of examples    *)
(* and rounds, any concurrency and any limit.                                *)
(*   PoolInv is the evaluation's own invariant.  The bound on its failures   *)
(* is not inductive: what is kept is that, once the budget is spent, the      *)
(* failures and the evaluations that may still fail stay within it together  *)
(* (Pending), because nothing starts any more and the failure that spent it  *)
(* gave its own place up.                                                   *)
(*   Bounds has the same shape for the collection: once it stops, the         *)
(* attempts begun late and those still to begin, and the failed attempts and *)
(* those that may still fail, stay within their bounds together.             *)
(*   Truth relates the evidence to what the observer acknowledged.           *)
(***************************************************************************)
EXTENDS TeacherTrace, FiniteSetTheorems, TLAPS

CONSTANT Budget  \* of an evaluation, whoever runs it; collect's is Tolerated

Pool == INSTANCE Collecting WITH Inputs <- Examples, MaxFailures <- Budget

(* The budget of the theorems about the collection.                         *)
CollectBudget == Budget = Tolerated

-------------------------------------------------------------------------------
(* The examples that a function of them maps into a set.                    *)
Within(f, S) == {e \in 1..Examples : f[e] \in S}

Spent == failures > Budget
Counted == failures = Cardinality(Within(trial, {"failed"}))
Manning == Cardinality(Within(trial, {"running"})) <= Concurrency
Pending == Spent => failures + Cardinality(Within(trial, {"running"})) <= Budget + Concurrency
Ended ==
  /\ \A e \in 1..Examples : trial[e] = "skipped" => Spent
  /\ verdict # None => \A e \in 1..Examples : trial[e] # "running"
  /\ verdict = "Collected" => (\A e \in 1..Examples : trial[e] # "waiting") /\ ~Spent
  /\ verdict = "TooManyFailures" => Spent

PoolInv == Pool!TypeOK /\ Counted /\ Manning /\ Pending /\ Ended

Places ==
  {"idle", "visited", "turning", "announcing", "attempting", "telling", "giving up"}

Announcing == Within(pc, {"announcing"})
Busy == Within(pc, {"announcing", "attempting"})

Types ==
  /\ pc \in [1..Examples -> Places]
  /\ errors \in Nat /\ late \in Nat
  /\ exhausted \in BOOLEAN /\ deaf \in BOOLEAN
Manned == \A e \in 1..Examples : pc[e] # "idle" <=> trial[e] = "running"
Lateness == IF Halted THEN late + Cardinality(Announcing) <= Concurrency ELSE late = 0
Overshoot ==
  MaxErrors > 0 =>
    IF exhausted THEN errors + Cardinality(Busy) <= MaxErrors - 1 + Concurrency
                 ELSE errors < MaxErrors

Bounds == Types /\ Manned /\ Lateness /\ Overshoot

Kinds == {"accepted", "score", "failure"}
Untold == {"telling", "giving up"}
Deafened == deaf \/ verdict = "Died"

(* The evidence: of no more rounds than there are and have started, with    *)
(* every event told but that of the attempt an example is about to tell of. *)
Evidence ==
  /\ outcomes \in [1..Examples -> Seq(Kinds)] /\ seen \in [1..Examples -> Seq(Kinds)]
  /\ started \in Nat
  /\ \A e \in 1..Examples :
       /\ Len(outcomes[e]) <= MaxRounds /\ Len(outcomes[e]) <= started
       /\ pc[e] \in {"announcing", "attempting"} =>
            Len(outcomes[e]) < MaxRounds /\ Len(outcomes[e]) < started
       /\ pc[e] \in Untold => outcomes[e] # <<>>
       /\ ~Deafened =>
            outcomes[e] = IF pc[e] \in Untold THEN Append(seen[e], Last(outcomes[e])) ELSE seen[e]

(* Rounds are announced once each, as they start.                           *)
Announced ==
  /\ rounds \in Seq(Nat)
  /\ ~Deafened =>
       /\ Range(rounds) \cup {Len(outcomes[e]) : e \in Announcing} = 0..(started - 1)
       /\ Len(rounds) + Cardinality(Announcing) = started

(* Errors are the failed attempts; the limit is reached when they say so,    *)
(* and from then on an example is failing for it or has.                    *)
Counting ==
  /\ errors = Cardinality(Attempts(outcomes, {"failure"}))
  /\ exhausted <=> errors > 0 /\ errors >= MaxErrors
  /\ \A e \in 1..Examples : pc[e] = "giving up" \/ trial[e] = "failed" => exhausted
  /\ exhausted => \/ verdict = "Died"
                  \/ \E e \in 1..Examples : pc[e] = "giving up" \/ trial[e] = "failed"
  /\ \A e \in 1..Examples : trial[e] = "interrupted" => verdict = "Died"

(* Rounds complete after the evaluation, with the evidence there is then.   *)
Completing ==
  /\ counts \in Seq([accepted : Nat, rejected : Nat])
  /\ counts # <<>> => verdict = "Collected"
  /\ \A n \in 1..Len(counts) :
       counts[n] = [accepted |-> Collected({"accepted"}, n),
                    rejected |-> Collected({"score", "failure"}, n)]
  /\ result # None /\ result.tag # "Died" => verdict \in {"Collected", "TooManyFailures"}

Truth == Evidence /\ Announced /\ Counting /\ Completing

IInv == PoolInv /\ Bounds /\ Truth /\ ResultTruthful

-------------------------------------------------------------------------------
(* Counting examples                                                        *)

LEMMA WithinFinite ==
  ASSUME NEW f, NEW S
  PROVE  IsFiniteSet(Within(f, S)) /\ Cardinality(Within(f, S)) \in Nat
<1>1. IsFiniteSet(1..Examples)
  BY FS_Interval, TeacherTraceAssumption
<1>2. IsFiniteSet(Within(f, S))
  BY <1>1, FS_Subset DEF Within
<1>. QED BY <1>2, FS_CardinalityType

(* An example that alone leaves a set takes one away.                       *)
LEMMA LeavingCounts ==
  ASSUME NEW f, NEW g, NEW S, NEW e \in 1..Examples,
         f[e] \in S, g[e] \notin S, \A i \in (1..Examples) \ {e} : g[i] = f[i]
  PROVE  Cardinality(Within(g, S)) = Cardinality(Within(f, S)) - 1
<1>1. Within(g, S) = Within(f, S) \ {e} /\ e \in Within(f, S)
  BY DEF Within
<1>. QED BY <1>1, WithinFinite, FS_RemoveElement

(* One that alone joins it adds one.                                        *)
LEMMA JoiningCounts ==
  ASSUME NEW f, NEW g, NEW S, NEW e \in 1..Examples,
         f[e] \notin S, g[e] \in S, \A i \in (1..Examples) \ {e} : g[i] = f[i]
  PROVE  Cardinality(Within(g, S)) = Cardinality(Within(f, S)) + 1
<1>1. Within(g, S) = Within(f, S) \cup {e} /\ e \notin Within(f, S)
  BY DEF Within
<1>. QED BY <1>1, WithinFinite, FS_AddElement

(* Examples away from "idle" are run by the pool: they are no more than its  *)
(* concurrency, and fewer when another is run beside them.                  *)
LEMMA PoolBounds ==
  ASSUME NEW f, NEW S, "idle" \notin S, Manning,
         \A e \in 1..Examples : f[e] # "idle" => trial[e] = "running"
  PROVE  /\ Cardinality(Within(f, S)) <= Concurrency
         /\ (\E e \in 1..Examples : trial[e] = "running" /\ f[e] \notin S) =>
              Cardinality(Within(f, S)) + 1 <= Concurrency
<1>1. Within(f, S) \subseteq Within(trial, {"running"})
  BY DEF Within
<1>2. Cardinality(Within(f, S)) <= Cardinality(Within(trial, {"running"}))
  BY <1>1, WithinFinite, FS_Subset
<1>3. ASSUME NEW e \in 1..Examples, trial[e] = "running", f[e] \notin S
      PROVE  Cardinality(Within(f, S)) < Cardinality(Within(trial, {"running"}))
  <2>1. e \in Within(trial, {"running"}) /\ e \notin Within(f, S)
    BY <1>3 DEF Within
  <2>. QED BY <1>1, <2>1, WithinFinite, FS_Subset
<1>. QED BY <1>2, <1>3, WithinFinite, TeacherTraceAssumption DEF Manning

-------------------------------------------------------------------------------
(* The evaluation                                                           *)

(* The three instances count sets alike.                                    *)
LEMMA SameCount ==
  \A S : /\ Pool!Cardinality(S) = Cardinality(S)
         /\ Evaluation!Cardinality(S) = Cardinality(S)
BY DEF Pool!Cardinality, Evaluation!Cardinality, Cardinality, Pool!IsFiniteSet, Evaluation!IsFiniteSet, IsFiniteSet

LEMMA PoolInit ==
  ASSUME Budget \in Nat, Pool!Init
  PROVE  PoolInv
<1>1. /\ Within(trial, {"failed"}) = {} /\ Within(trial, {"running"}) = {}
      /\ \A e \in 1..Examples : trial[e] = "waiting"
  BY DEF Pool!Init, Pool!Trials, Within
<1>2. /\ Cardinality(Within(trial, {"failed"})) = 0
      /\ Cardinality(Within(trial, {"running"})) = 0
  BY <1>1, FS_EmptySet
<1>3. Pool!TypeOK
  BY DEF Pool!Init, Pool!TypeOK, Pool!Trials
<1>. QED
  BY <1>1, <1>2, <1>3, TeacherTraceAssumption DEF PoolInv, Counted, Manning,
     Pending, Ended, Spent, Pool!Init

(* A trial moves to another state, alone.                                   *)
Turns(i, from, to) ==
  /\ trial[i] = from /\ trial' = [trial EXCEPT ![i] = to]
  /\ trial'[i] = to /\ \A j \in (1..Examples) \ {i} : trial'[j] = trial[j]

LEMMA TrialTurns ==
  ASSUME PoolInv, NEW i \in 1..Examples
  PROVE  /\ Pool!Start(i) => Turns(i, "waiting", "running")
         /\ Pool!Skip(i) => Turns(i, "waiting", "skipped")
         /\ Pool!Complete(i) => Turns(i, "running", "completed")
         /\ Pool!Fail(i) => Turns(i, "running", "failed")
BY DEF PoolInv, Pool!TypeOK, Pool!Trials, Pool!Start, Pool!Skip, Pool!Turn, Pool!Complete,
       Pool!Fail, Turns

LEMMA PoolPreserves ==
  ASSUME Budget \in Nat, PoolInv, [Pool!Next]_(Pool!vars)
  PROVE  PoolInv'
<1>1. Pool!TypeOK'
  BY DEF PoolInv, Pool!Next, Pool!TypeOK, Pool!Start, Pool!Skip, Pool!Turn, Pool!Complete,
         Pool!Fail, Pool!Finish, Pool!Die, Pool!vars
<1>2. /\ Cardinality(Within(trial, {"running"})) \in Nat
      /\ Cardinality(Within(trial, {"failed"})) \in Nat
      /\ failures \in Nat /\ Concurrency \in Nat \ {0}
  BY WithinFinite, TeacherTraceAssumption DEF PoolInv, Pool!TypeOK
<1>. USE DEF PoolInv
<1>3. ASSUME NEW i \in 1..Examples, Pool!Start(i) PROVE PoolInv'
  <2>1. Turns(i, "waiting", "running")
    BY <1>3, TrialTurns
  <2>2. Cardinality(Within(trial', {"running"})) = Cardinality(Within(trial, {"running"})) + 1
    BY <2>1, JoiningCounts DEF Turns
  <2>3. Within(trial', {"failed"}) = Within(trial, {"failed"})
    BY <2>1 DEF Turns, Within
  <2>4. /\ verdict = None /\ verdict' = None /\ failures' = failures /\ ~Spent
        /\ Cardinality(Within(trial, {"running"})) < Concurrency
    BY <1>3, SameCount DEF Pool!Start, Pool!Turn, Pool!BudgetSpent, Pool!Running, Pool!In,
                           Pool!Trials, Within, Spent
  <2>5. Counted' /\ Pending' /\ Manning'
    BY <1>2, <2>2, <2>3, <2>4 DEF Counted, Pending, Manning, Spent
  <2>6. Ended'
    BY <2>1, <2>4, TeacherTraceAssumption DEF Turns, Ended, Spent
  <2>. QED BY <1>1, <2>5, <2>6
<1>4. ASSUME NEW i \in 1..Examples, Pool!Skip(i) PROVE PoolInv'
  <2>1. Turns(i, "waiting", "skipped")
    BY <1>4, TrialTurns
  <2>2. /\ Within(trial', {"running"}) = Within(trial, {"running"})
        /\ Within(trial', {"failed"}) = Within(trial, {"failed"})
    BY <2>1 DEF Turns, Within
  <2>3. verdict = None /\ verdict' = None /\ failures' = failures /\ Spent
    BY <1>4 DEF Pool!Skip, Pool!Turn, Pool!BudgetSpent, Spent
  <2>4. Counted' /\ Pending' /\ Manning'
    BY <2>2, <2>3 DEF Counted, Pending, Manning, Spent
  <2>5. Ended'
    BY <2>1, <2>3, TeacherTraceAssumption DEF Turns, Ended, Spent
  <2>. QED BY <1>1, <2>4, <2>5
<1>5. ASSUME NEW i \in 1..Examples, Pool!Complete(i) PROVE PoolInv'
  <2>1. Turns(i, "running", "completed")
    BY <1>5, TrialTurns
  <2>a. trial[i] \in {"running"} /\ trial'[i] \notin {"running"}
    BY <2>1 DEF Turns
  <2>2. Cardinality(Within(trial', {"running"})) = Cardinality(Within(trial, {"running"})) - 1
    BY <2>1, <2>a, LeavingCounts DEF Turns
  <2>3. Within(trial', {"failed"}) = Within(trial, {"failed"})
    BY <2>1 DEF Turns, Within
  <2>4. verdict = None /\ verdict' = None /\ failures' = failures
    BY <1>5, <2>1 DEF Pool!Complete, Turns, Ended
  <2>5. Counted' /\ Pending' /\ Manning'
    BY <1>2, <2>2, <2>3, <2>4 DEF Counted, Pending, Manning, Spent
  <2>6. Ended'
    BY <2>1, <2>4, TeacherTraceAssumption DEF Turns, Ended, Spent
  <2>. QED BY <1>1, <2>5, <2>6
<1>6. ASSUME NEW i \in 1..Examples, Pool!Fail(i) PROVE PoolInv'
  <2>1. Turns(i, "running", "failed")
    BY <1>6, TrialTurns
  <2>a. trial[i] \in {"running"} /\ trial'[i] \notin {"running"}
    BY <2>1 DEF Turns
  <2>2. Cardinality(Within(trial', {"running"})) = Cardinality(Within(trial, {"running"})) - 1
    BY <2>1, <2>a, LeavingCounts DEF Turns
  <2>3. Cardinality(Within(trial', {"failed"})) = Cardinality(Within(trial, {"failed"})) + 1
    BY <2>1, JoiningCounts DEF Turns
  <2>4. verdict = None /\ verdict' = None /\ failures' = failures + 1
    BY <1>6, <2>1 DEF Pool!Fail, Turns, Ended
  <2>5. Counted' /\ Pending' /\ Manning'
    BY <1>2, <2>2, <2>3, <2>4 DEF Counted, Pending, Manning, Spent
  <2>6. Spent => Spent'
    BY <1>2, <2>4 DEF Spent
  <2>7. Ended'
    BY <2>1, <2>4, <2>6, TeacherTraceAssumption DEF Turns, Ended
  <2>. QED BY <1>1, <2>5, <2>7
<1>7. CASE Pool!Finish
  <2>1. /\ UNCHANGED <<trial, failures>>
        /\ \A e \in 1..Examples : trial[e] \notin {"waiting", "running"}
        /\ verdict' = "Collected" => ~Spent
        /\ verdict' = "TooManyFailures" => Spent
    BY <1>7 DEF Pool!Finish, Pool!In, Pool!Trials, Pool!BudgetSpent, Spent
  <2>. QED BY <1>1, <2>1 DEF Counted, Manning, Pending, Ended, Spent
<1>8. CASE Pool!Die
  <2>1. /\ \A e \in 1..Examples : trial'[e] = IF trial[e] = "running" THEN "interrupted" ELSE trial[e]
        /\ verdict' = "Died" /\ UNCHANGED failures
    BY <1>8 DEF Pool!Die, Pool!Running, Pool!In, Pool!Trials
  <2>2. Within(trial', {"running"}) = {} /\ Within(trial', {"failed"}) = Within(trial, {"failed"})
    BY <2>1 DEF Within
  <2>3. Cardinality(Within(trial', {"running"})) = 0
    BY <2>2, FS_EmptySet
  <2>4. Counted' /\ Pending' /\ Manning'
    BY <1>2, <2>1, <2>2, <2>3 DEF Counted, Pending, Manning, Spent
  <2>5. Ended'
    BY <2>1 DEF Ended, Spent
  <2>. QED BY <1>1, <2>4, <2>5
<1>9. CASE UNCHANGED Pool!vars
  BY <1>9 DEF Pool!vars, Pool!TypeOK, Counted, Manning, Pending, Ended, Spent
<1>. QED BY <1>3, <1>4, <1>5, <1>6, <1>7, <1>8, <1>9 DEF Pool!Next, Pool!Trials

LEMMA PoolImplies ==
  ASSUME Budget \in Nat, PoolInv
  PROVE  Pool!OvershootBounded
<1>1. /\ Cardinality(Within(trial, {"running"})) \in Nat
      /\ failures \in Nat /\ Concurrency \in Nat
  BY WithinFinite, TeacherTraceAssumption DEF PoolInv, Pool!TypeOK
<1>2. failures <= Budget + Concurrency
  BY <1>1 DEF PoolInv, Pending, Spent
<1>3. failures = Pool!Cardinality(Pool!In({"failed"}))
  BY SameCount DEF PoolInv, Counted, Within, Pool!In, Pool!Trials
<1>4. verdict # None => Pool!Running = {}
  BY DEF PoolInv, Ended, Pool!Running, Pool!In, Pool!Trials
<1>5. verdict = "Collected" => Pool!In({"waiting", "skipped"}) = {}
  BY DEF PoolInv, Ended, Pool!In, Pool!Trials
<1>. QED BY <1>2, <1>3, <1>4, <1>5 DEF Pool!OvershootBounded

(* The failure budget of runCollecting: it is overshot by no more than the   *)
(* evaluations that ran beside the one that spent it, the reported count is  *)
(* that of all failures, the call ends drained, and it collects only when    *)
(* nothing was skipped.                                                     *)
THEOREM OvershootIsBounded ==
  ASSUME Budget \in Nat
  PROVE  Pool!Spec => [](Pool!TypeOK /\ Pool!OvershootBounded)
<1>1. Pool!Init => PoolInv
  BY PoolInit
<1>2. PoolInv /\ [Pool!Next]_(Pool!vars) => PoolInv'
  BY PoolPreserves
<1>3. PoolInv => Pool!TypeOK /\ Pool!OvershootBounded
  BY PoolImplies DEF PoolInv
<1>. QED BY <1>1, <1>2, <1>3, PTL DEF Pool!Spec

-------------------------------------------------------------------------------
(* The collection's steps on the evaluation                                 *)

LEMMA SameInit ==
  ASSUME CollectBudget, Evaluation!Init
  PROVE  Pool!Init
BY DEF CollectBudget, Evaluation!Init, Pool!Init, Evaluation!Trials, Pool!Trials

LEMMA SameStep ==
  ASSUME CollectBudget, [Evaluation!Next]_evaluationVars
  PROVE  [Pool!Next]_(Pool!vars)
BY SameCount DEF CollectBudget, evaluationVars, Pool!vars, Evaluation!Next, Pool!Next,
  Evaluation!Trials, Pool!Trials, Evaluation!In, Pool!In, Evaluation!Running, Pool!Running,
  Evaluation!Turn, Pool!Turn, Evaluation!BudgetSpent, Pool!BudgetSpent,
  Evaluation!Start, Pool!Start, Evaluation!Skip, Pool!Skip, Evaluation!Complete, Pool!Complete,
  Evaluation!Fail, Pool!Fail, Evaluation!Finish, Pool!Finish, Evaluation!Die, Pool!Die

(* Whatever examples do, the evaluation takes a step of its own or none.    *)
LEMMA EvaluationSteps ==
  ASSUME [Next]_vars
  PROVE  [Evaluation!Next]_evaluationVars
BY DEF Next, Example, Visit, Skip, Stop, StartRound, Announce, Attempt, Tell, GiveUp, Leave,
  Finish, Die, CompleteRound, Conclude, vars, evaluationVars, Evaluation!Next, Evaluation!Trials

-------------------------------------------------------------------------------
(* Bounds                                                                   *)

(* Where a step finds and leaves the examples: e moves from one place to     *)
(* another and no other does; its trial runs unless it is idle then.         *)
Moves(e, from, there) ==
  /\ pc[e] = from
  /\ pc' = [pc EXCEPT ![e] = there]
  /\ \A i \in (1..Examples) \ {e} : trial'[i] = "running" <=> trial[i] = "running"
  /\ trial'[e] = "running" <=> there # "idle"

(* A step that leaves the limit and the observer alone, begins no attempt    *)
(* and adds none to come keeps the bounds.                                  *)
LEMMA Quiet ==
  ASSUME PoolInv, Bounds, NEW e \in 1..Examples, NEW there \in Places,
         Moves(e, pc[e], there),
         there \notin {"announcing", "attempting"}, pc[e] \notin {"announcing", "attempting"},
         UNCHANGED <<errors, exhausted, late>>, deaf' \in BOOLEAN, deaf => deaf'
  PROVE  Bounds'
<1>1. Types' /\ Manned'
  BY DEF Bounds, Types, Manned, Moves
<1>2. Announcing' = Announcing /\ Busy' = Busy
  <2>1. pc \in [1..Examples -> Places] /\ pc' = [pc EXCEPT ![e] = there]
    BY DEF Bounds, Types, Moves
  <2>2. pc'[e] = there /\ \A i \in (1..Examples) \ {e} : pc'[i] = pc[i]
    BY <2>1
  <2>. QED BY <2>2 DEF Announcing, Busy, Within
<1>3. Cardinality(Announcing) <= Concurrency
  BY PoolBounds DEF PoolInv, Bounds, Manned, Announcing
<1>4. Lateness'
  BY <1>2, <1>3, WithinFinite, TeacherTraceAssumption DEF Bounds, Lateness, Halted, Announcing
<1>5. Overshoot'
  BY <1>2 DEF Bounds, Overshoot
<1>. QED BY <1>1, <1>4, <1>5 DEF Bounds

(* A step that moves no example keeps the bounds with what they count.      *)
LEMMA Still ==
  ASSUME PoolInv, Bounds, UNCHANGED <<pc, errors, exhausted, late>>, deaf' \in BOOLEAN, deaf => deaf',
         \A i \in 1..Examples : trial'[i] = "running" <=> trial[i] = "running"
  PROVE  Bounds'
<1>1. Types' /\ Manned'
  BY DEF Bounds, Types, Manned
<1>2. Announcing' = Announcing /\ Busy' = Busy
  BY DEF Announcing, Busy
<1>3. Cardinality(Announcing) <= Concurrency
  BY PoolBounds DEF PoolInv, Bounds, Manned, Announcing
<1>4. Lateness'
  BY <1>2, <1>3, WithinFinite, TeacherTraceAssumption DEF Bounds, Lateness, Halted, Announcing
<1>5. Overshoot'
  BY <1>2 DEF Bounds, Overshoot
<1>. QED BY <1>1, <1>4, <1>5 DEF Bounds

LEMMA VisitPreserves ==
  ASSUME PoolInv, Bounds, NEW e \in 1..Examples, Visit(e)
  PROVE  Bounds'
<1>1. trial[e] = "waiting" /\ trial' = [trial EXCEPT ![e] = "running"]
  BY DEF Visit, Evaluation!Start, Evaluation!Turn
<1>2. pc[e] = "idle"
  BY <1>1 DEF Bounds, Manned
<1>3. PICK there \in {"visited", "turning"} : pc' = [pc EXCEPT ![e] = there]
  BY DEF Visit, Go
<1>4. trial \in [1..Examples -> {"waiting", "running", "completed", "failed", "skipped", "interrupted"}]
  BY DEF PoolInv, Pool!TypeOK, Pool!Trials
<1>5. Moves(e, pc[e], there)
  BY <1>1, <1>3, <1>4 DEF Moves
<1>. QED
  BY <1>2, <1>3, <1>5, Quiet DEF Visit, refVars, observerVars, Bounds, Types, Places

(* Examples leave the places where nothing is attempted.                    *)
LEMMA RestPreserves ==
  ASSUME PoolInv, Bounds, NEW e \in 1..Examples,
         Stop(e) \/ Tell(e) \/ GiveUp(e) \/ Leave(e) \/ Skip(e)
  PROVE  Bounds'
<1>0. trial \in [1..Examples -> {"waiting", "running", "completed", "failed", "skipped", "interrupted"}]
  BY DEF PoolInv, Pool!TypeOK, Pool!Trials
<1>. DEFINE Hears == deaf' \in BOOLEAN /\ (deaf => deaf')
<1>1. CASE Stop(e)
  <2>1. Moves(e, pc[e], "visited") /\ pc[e] = "turning"
    BY <1>1 DEF Stop, Go, Moves, evaluationVars, Bounds, Manned
  <2>. QED BY <1>1, <2>1, Quiet DEF Stop, refVars, observerVars, Bounds, Types, Places
<1>2. CASE Tell(e)
  <2>1. Moves(e, pc[e], "turning") /\ pc[e] = "telling"
    BY <1>2 DEF Tell, Go, Moves, evaluationVars, Bounds, Manned
  <2>2. deaf' = deaf \/ deaf' = TRUE
    BY <1>2 DEF Tell, Acknowledge, Emit
  <2>3. Hears
    BY <2>2 DEF Bounds, Types
  <2>. QED BY <1>2, <2>1, <2>3, Quiet DEF Tell, refVars, Places
<1>3. CASE GiveUp(e)
  <2>1. Moves(e, pc[e], "idle") /\ pc[e] = "giving up"
    BY <1>0, <1>3 DEF GiveUp, Go, Moves, Evaluation!Fail
  <2>2. deaf' = deaf \/ deaf' = TRUE
    BY <1>3 DEF GiveUp, Acknowledge, Emit
  <2>3. Hears
    BY <2>2 DEF Bounds, Types
  <2>. QED BY <1>3, <2>1, <2>3, Quiet DEF GiveUp, refVars, Places
<1>4. CASE Leave(e)
  <2>1. Moves(e, pc[e], "idle") /\ pc[e] = "visited"
    BY <1>0, <1>4 DEF Leave, Go, Moves, Evaluation!Complete
  <2>. QED BY <1>4, <2>1, Quiet DEF Leave, refVars, observerVars, Bounds, Types, Places
<1>5. CASE Skip(e)
  <2>1. \A i \in 1..Examples : trial'[i] = "running" <=> trial[i] = "running"
    BY <1>0, <1>5 DEF Skip, Evaluation!Skip, Evaluation!Turn
  <2>. QED BY <1>5, <2>1, Still DEF Skip, refVars, observerVars, Bounds, Types
<1>. QED BY <1>1, <1>2, <1>3, <1>4, <1>5

(* Only a collection that is not stopped announces a round, so whoever        *)
(* waits for the observer was there before it stopped.                      *)
LEMMA StartRoundPreserves ==
  ASSUME PoolInv, Bounds, NEW e \in 1..Examples, StartRound(e)
  PROVE  Bounds'
<1>1. /\ pc[e] = "turning" /\ ~deaf /\ ~exhausted /\ late = 0
      /\ UNCHANGED <<trial, errors, exhausted, deaf>>
  BY DEF StartRound, Halted, evaluationVars, observerVars, Bounds, Lateness
<1>2. PICK there \in {"announcing", "attempting"} : pc' = [pc EXCEPT ![e] = there] /\ late' = 0
  BY <1>1 DEF StartRound, Go, Begin
<1>3. Types' /\ Manned'
  BY <1>1, <1>2 DEF Bounds, Types, Manned, Places
<1>4. Lateness' /\ Overshoot'
  BY <1>1, <1>2 DEF Bounds, Lateness, Halted, Overshoot
<1>. QED BY <1>3, <1>4 DEF Bounds

(* The attempt of one that waited may be late: it takes its own place.      *)
LEMMA AnnouncePreserves ==
  ASSUME PoolInv, Bounds, NEW e \in 1..Examples, Announce(e)
  PROVE  Bounds'
<1>1. /\ pc[e] = "announcing" /\ pc' = [pc EXCEPT ![e] = "attempting"]
      /\ UNCHANGED <<trial, errors, exhausted>>
      /\ deaf' \in BOOLEAN /\ (deaf => deaf')
      /\ late' = IF deaf' \/ exhausted' THEN late + 1 ELSE late
  BY DEF Announce, Begin, Go, Emit, evaluationVars, refVars, Bounds, Types
<1>2. Types' /\ Manned'
  <2>1. late' \in Nat
    BY <1>1 DEF Bounds, Types
  <2>2. pc' \in [1..Examples -> Places] /\ Manned'
    BY <1>1 DEF Bounds, Types, Manned, Places
  <2>. QED BY <1>1, <2>1, <2>2 DEF Bounds, Types
<1>3. pc \in [1..Examples -> Places] /\ "attempting" \in Places
  BY DEF Bounds, Types, Places
<1>4. pc'[e] = "attempting" /\ \A i \in (1..Examples) \ {e} : pc'[i] = pc[i]
  BY <1>1, <1>3
<1>5. Busy' = Busy
  BY <1>1, <1>4 DEF Busy, Within
<1>a. Cardinality(Announcing') = Cardinality(Announcing) - 1
  <2>1. pc[e] \in {"announcing"} /\ pc'[e] \notin {"announcing"}
    BY <1>1, <1>4
  <2>2. Cardinality(Within(pc', {"announcing"})) = Cardinality(Within(pc, {"announcing"})) - 1
    BY <1>4, <2>1, LeavingCounts
  <2>. QED BY <2>2 DEF Announcing
<1>6. Cardinality(Announcing) <= Concurrency /\ Cardinality(Announcing) \in Nat
  BY PoolBounds, WithinFinite DEF PoolInv, Bounds, Manned, Announcing
<1>7. Lateness'
  BY <1>1, <1>a, <1>6, TeacherTraceAssumption DEF Bounds, Types, Lateness, Halted
<1>8. Overshoot'
  BY <1>1, <1>5 DEF Bounds, Overshoot
<1>. QED BY <1>2, <1>7, <1>8 DEF Bounds

(* What an attempt does to the bounds: it fails or not, and its failure may  *)
(* be the one that reaches the limit.                                       *)
Attempted(e, there) ==
  /\ pc[e] = "attempting" /\ pc' = [pc EXCEPT ![e] = there]
  /\ UNCHANGED <<trial, deaf, late>>
  /\ \/ UNCHANGED <<errors, exhausted>>
     \/ errors' = errors + 1 /\ errors' < MaxErrors /\ UNCHANGED exhausted
     \/ errors' = errors + 1 /\ exhausted' = TRUE

LEMMA AttemptEffect ==
  ASSUME PoolInv, Bounds, NEW e \in 1..Examples, NEW outcome, Attempt(e, outcome)
  PROVE  Attempted(e, "giving up") \/ Attempted(e, "telling")
<1>1. pc' = [pc EXCEPT ![e] = "giving up"] \/ pc' = [pc EXCEPT ![e] = "telling"]
  BY DEF Attempt, Go
<1>2. pc[e] = "attempting" /\ UNCHANGED <<trial, deaf, late>>
  BY DEF Attempt, evaluationVars, observerVars
<1>3. CASE outcome = "failure" /\ Reached
  BY <1>1, <1>2, <1>3 DEF Attempt, Attempted
<1>4. CASE outcome = "failure" /\ ~Reached
  <2>1. errors' = errors + 1 /\ exhausted' = (exhausted \/ FALSE)
    BY <1>4 DEF Attempt
  <2>2. errors' \in Nat
    BY <2>1 DEF Bounds, Types
  <2>3. errors' < MaxErrors
    BY <1>4, <2>2, TeacherTraceAssumption DEF Reached
  <2>4. exhausted' = exhausted
    BY <2>1 DEF Bounds, Types
  <2>. QED BY <1>1, <1>2, <2>1, <2>3, <2>4 DEF Attempted
<1>5. CASE outcome # "failure"
  <2>1. errors' = errors /\ exhausted' = (exhausted \/ FALSE)
    BY <1>5 DEF Attempt
  <2>2. exhausted' = exhausted
    BY <2>1 DEF Bounds, Types
  <2>. QED BY <1>1, <1>2, <2>1, <2>2 DEF Attempted
<1>. QED BY <1>3, <1>4, <1>5

(* An attempt gives its place up when its failure is counted; the failure    *)
(* that reaches the limit leaves fewer than the concurrency beside it.      *)
LEMMA AttemptPreserves ==
  ASSUME PoolInv, Bounds, NEW e \in 1..Examples, NEW there \in Places,
         there \notin {"idle", "announcing", "attempting"}, Attempted(e, there)
  PROVE  Bounds'
<1>1. pc' = [pc EXCEPT ![e] = there]
  BY DEF Attempted
<1>2. pc[e] = "attempting" /\ UNCHANGED <<trial, deaf, late>>
  BY DEF Attempted
<1>3. \/ UNCHANGED <<errors, exhausted>>
      \/ errors' = errors + 1 /\ errors' < MaxErrors /\ UNCHANGED exhausted
      \/ errors' = errors + 1 /\ exhausted' = TRUE
  BY DEF Attempted
<1>b. errors' = errors \/ errors' = errors + 1
  BY <1>3
<1>c. exhausted' = exhausted \/ exhausted' = TRUE
  BY <1>3
<1>4. pc'[e] = there /\ \A i \in (1..Examples) \ {e} : pc'[i] = pc[i]
  BY <1>1 DEF Bounds, Types
<1>5. Types' /\ Manned'
  <2>1. errors' \in Nat
    BY <1>b DEF Bounds, Types
  <2>2. exhausted' \in BOOLEAN
    BY <1>c DEF Bounds, Types
  <2>. QED BY <1>1, <1>2, <2>1, <2>2 DEF Bounds, Types, Manned, Places
<1>6. Announcing' = Announcing
  BY <1>2, <1>4 DEF Announcing, Within
<1>7. Cardinality(Busy') = Cardinality(Busy) - 1
  <2>1. /\ pc[e] \in {"announcing", "attempting"}
        /\ pc'[e] \notin {"announcing", "attempting"}
    BY <1>2, <1>4
  <2>2. Cardinality(Within(pc', {"announcing", "attempting"}))
          = Cardinality(Within(pc, {"announcing", "attempting"})) - 1
    BY <1>4, <2>1, LeavingCounts
  <2>. QED BY <2>2 DEF Busy
<1>8. /\ Cardinality(Announcing) <= Concurrency /\ Cardinality(Announcing) \in Nat
      /\ Cardinality(Busy) \in Nat
  BY PoolBounds, WithinFinite DEF PoolInv, Bounds, Manned, Announcing, Busy
<1>9. Cardinality(Busy') + 1 <= Concurrency
  <2>1. \A i \in 1..Examples : pc'[i] # "idle" => trial[i] = "running"
    BY <1>2, <1>4 DEF Bounds, Manned
  <2>2. trial[e] = "running" /\ pc'[e] \notin {"announcing", "attempting"}
    BY <1>2, <1>4 DEF Bounds, Manned
  <2>3. Manning
    BY DEF PoolInv
  <2>4. Cardinality(Within(pc', {"announcing", "attempting"})) + 1 <= Concurrency
    BY <2>1, <2>2, <2>3, PoolBounds
  <2>. QED BY <2>4 DEF Busy
<1>10. Lateness'
  <2>1. CASE Halted
    <3>1. Halted'
      BY <1>2, <1>c, <2>1 DEF Halted
    <3>. QED BY <1>2, <1>6, <2>1, <3>1 DEF Bounds, Lateness
  <2>2. CASE ~Halted
    <3>1. late' = 0
      BY <1>2, <2>2 DEF Bounds, Lateness
    <3>2. 0 + Cardinality(Announcing) <= Concurrency
      BY <1>8
    <3>. QED BY <1>6, <3>1, <3>2 DEF Lateness
  <2>. QED BY <2>1, <2>2
<1>11. Overshoot'
  <2>. SUFFICES ASSUME MaxErrors > 0
                PROVE  IF exhausted' THEN errors' + Cardinality(Busy') <= MaxErrors - 1 + Concurrency
                                     ELSE errors' < MaxErrors
    BY DEF Overshoot
  <2>1. CASE exhausted
    <3>1. exhausted' /\ errors + Cardinality(Busy) <= MaxErrors - 1 + Concurrency
      BY <1>3, <2>1 DEF Bounds, Overshoot
    <3>2. errors' + Cardinality(Busy') <= MaxErrors - 1 + Concurrency
      BY <1>7, <1>8, <1>b, <3>1, TeacherTraceAssumption DEF Bounds, Types
    <3>. QED BY <3>1, <3>2
  <2>2. CASE ~exhausted /\ exhausted'
    <3>1. errors < MaxErrors /\ errors' = errors + 1
      BY <1>3, <2>2 DEF Bounds, Overshoot
    <3>2. errors' + Cardinality(Busy') <= MaxErrors - 1 + Concurrency
      BY <1>7, <1>8, <1>9, <3>1, TeacherTraceAssumption DEF Bounds, Types
    <3>. QED BY <2>2, <3>2
  <2>3. CASE ~exhausted /\ ~exhausted'
    BY <1>3, <2>3 DEF Bounds, Overshoot
  <2>. QED BY <2>1, <2>2, <2>3
<1>. QED BY <1>5, <1>10, <1>11 DEF Bounds

LEMMA DiePreserves ==
  ASSUME PoolInv, Bounds, Die
  PROVE  Bounds'
<1>1. /\ pc' = [i \in 1..Examples |-> "idle"]
      /\ UNCHANGED <<errors, exhausted, deaf, late>>
  BY DEF Die, refVars, observerVars
<1>2. \A i \in 1..Examples : trial'[i] # "running"
  BY DEF Die, Evaluation!Die, Evaluation!Running, Evaluation!In, Evaluation!Trials
<1>3. Types' /\ Manned'
  BY <1>1, <1>2 DEF Bounds, Types, Manned, Places
<1>4. Announcing' = {} /\ Busy' = {}
  BY <1>1 DEF Announcing, Busy, Within
<1>5. Cardinality({}) = 0 /\ Cardinality(Announcing) \in Nat /\ Cardinality(Busy) \in Nat
  BY FS_EmptySet, WithinFinite DEF Announcing, Busy
<1>6. Lateness'
  BY <1>1, <1>4, <1>5, TeacherTraceAssumption DEF Bounds, Types, Lateness, Halted
<1>7. Overshoot'
  BY <1>1, <1>4, <1>5, TeacherTraceAssumption DEF Bounds, Types, Overshoot
<1>. QED BY <1>3, <1>6, <1>7 DEF Bounds

-------------------------------------------------------------------------------
(* Attempts                                                                 *)

LEMMA AttemptsFinite ==
  ASSUME NEW f, NEW K
  PROVE  IsFiniteSet(Attempts(f, K)) /\ Cardinality(Attempts(f, K)) \in Nat
<1>1. IsFiniteSet(1..Examples) /\ IsFiniteSet(1..MaxRounds)
  BY FS_Interval, TeacherTraceAssumption
<1>2. IsFiniteSet((1..Examples) \X (1..MaxRounds))
  BY <1>1, FS_Product
<1>3. Attempts(f, K) \subseteq (1..Examples) \X (1..MaxRounds)
  BY DEF Attempts
<1>4. IsFiniteSet(Attempts(f, K))
  BY <1>2, <1>3, FS_Subset
<1>. QED BY <1>4, FS_CardinalityType

(* One more attempt of an example adds one that failed, if it did.          *)
LEMMA FailuresGrow ==
  ASSUME outcomes \in [1..Examples -> Seq(Kinds)], NEW e \in 1..Examples, NEW o \in Kinds,
         Len(outcomes[e]) < MaxRounds,
         outcomes'[e] = Append(outcomes[e], o),
         \A i \in (1..Examples) \ {e} : outcomes'[i] = outcomes[i]
  PROVE  /\ o = "failure" => Cardinality(Attempts(outcomes', {"failure"}))
                                = Cardinality(Attempts(outcomes, {"failure"})) + 1
         /\ o # "failure" => Attempts(outcomes', {"failure"}) = Attempts(outcomes, {"failure"})
<1>. DEFINE n == Len(outcomes[e]) + 1
<1>1. /\ outcomes[e] \in Seq(Kinds) /\ Len(outcomes[e]) \in Nat /\ DOMAIN outcomes[e] = 1..Len(outcomes[e])
      /\ outcomes'[e] = Append(outcomes[e], o) /\ \A i \in (1..Examples) \ {e} : outcomes'[i] = outcomes[i]
  OBVIOUS
<1>2. /\ DOMAIN outcomes'[e] = 1..n /\ outcomes'[e][n] = o
      /\ \A i \in 1..Len(outcomes[e]) : outcomes'[e][i] = outcomes[e][i]
  BY <1>1
<1>3. n \in 1..MaxRounds /\ n \notin DOMAIN outcomes[e]
  BY <1>1, TeacherTraceAssumption
<1>4. ASSUME NEW x \in 1..Examples, NEW i \in 1..MaxRounds, <<x, i>> # <<e, n>>
      PROVE  <<x, i>> \in Attempts(outcomes', {"failure"}) <=> <<x, i>> \in Attempts(outcomes, {"failure"})
  <2>1. CASE x # e
    BY <1>1, <2>1 DEF Attempts
  <2>2. CASE x = e
    <3>1. i # n
      BY <1>4, <2>2
    <3>2. i \in DOMAIN outcomes'[e] <=> i \in DOMAIN outcomes[e]
      BY <1>1, <1>2, <3>1
    <3>. QED BY <1>1, <1>2, <2>2, <3>2 DEF Attempts
  <2>. QED BY <2>1, <2>2
<1>5. /\ <<e, n>> \notin Attempts(outcomes, {"failure"})
      /\ <<e, n>> \in Attempts(outcomes', {"failure"}) <=> o = "failure"
  BY <1>2, <1>3 DEF Attempts
<1>6. /\ Attempts(outcomes, {"failure"}) \subseteq (1..Examples) \X (1..MaxRounds)
      /\ Attempts(outcomes', {"failure"}) \subseteq (1..Examples) \X (1..MaxRounds)
  BY DEF Attempts
<1>. HIDE DEF n
<1>a. ASSUME NEW a \in (1..Examples) \X (1..MaxRounds), a # <<e, n>>
      PROVE  a \in Attempts(outcomes', {"failure"}) <=> a \in Attempts(outcomes, {"failure"})
  <2>1. PICK x \in 1..Examples, i \in 1..MaxRounds : a = <<x, i>>
    OBVIOUS
  <2>. QED BY <1>4, <1>a, <2>1
<1>b. <<e, n>> \in (1..Examples) \X (1..MaxRounds)
  BY <1>3
<1>. DEFINE F == Attempts(outcomes, {"failure"})
            G == Attempts(outcomes', {"failure"})
            U == (1..Examples) \X (1..MaxRounds)
<1>c. /\ F \subseteq U /\ G \subseteq U
      /\ \A a \in U : a # <<e, n>> => (a \in G <=> a \in F)
      /\ <<e, n>> \in U /\ <<e, n>> \notin F /\ (<<e, n>> \in G <=> o = "failure")
  BY <1>5, <1>6, <1>a, <1>b
<1>7. ASSUME o = "failure" PROVE Attempts(outcomes', {"failure"}) = Attempts(outcomes, {"failure"}) \cup {<<e, n>>}
  <2>. HIDE DEF F, G, U
  <2>1. G = F \cup {<<e, n>>}
    BY <1>c, <1>7
  <2>. QED BY <2>1 DEF F, G
<1>8. ASSUME o # "failure" PROVE Attempts(outcomes', {"failure"}) = Attempts(outcomes, {"failure"})
  <2>. HIDE DEF F, G, U
  <2>1. \A a \in U : a \in G <=> a \in F
    BY <1>c, <1>8
  <2>2. G = F
    BY <1>c, <2>1
  <2>. QED BY <2>2 DEF F, G
<1>. QED BY <1>5, <1>7, <1>8, AttemptsFinite, FS_AddElement

LEMMA AttemptsSplit ==
  ASSUME NEW f
  PROVE  Cardinality(Attempts(f, {"score", "failure"}))
           = Cardinality(Attempts(f, {"score"})) + Cardinality(Attempts(f, {"failure"}))
<1>1. Attempts(f, {"score", "failure"}) = Attempts(f, {"score"}) \cup Attempts(f, {"failure"})
  BY DEF Attempts
<1>2. Attempts(f, {"score"}) \cap Attempts(f, {"failure"}) = {}
  BY DEF Attempts
<1>. DEFINE S == Attempts(f, {"score"})
            F == Attempts(f, {"failure"})
<1>3. /\ IsFiniteSet(S) /\ Cardinality(S) \in Nat
      /\ IsFiniteSet(F) /\ Cardinality(F) \in Nat
  BY AttemptsFinite
<1>. HIDE DEF S, F
<1>4. Cardinality(S \cup F) = Cardinality(S) + Cardinality(F) - Cardinality(S \cap F)
  BY <1>3, FS_Union
<1>5. Cardinality(S \cap F) = 0
  BY <1>2, FS_EmptySet DEF S, F
<1>6. Cardinality(S \cup F) = Cardinality(S) + Cardinality(F)
  BY <1>3, <1>4, <1>5
<1>. QED BY <1>1, <1>6 DEF S, F

LEMMA CollectedType ==
  ASSUME NEW K, NEW n
  PROVE  Collected(K, n) \in Nat
<1>. DEFINE A == {a \in Attempts(outcomes, K) : a[1] \in Evaluation!In({"completed"}) /\ a[2] <= n}
<1>1. A \subseteq Attempts(outcomes, K)
  OBVIOUS
<1>2. IsFiniteSet(A)
  BY <1>1, AttemptsFinite, FS_Subset
<1>. QED BY <1>2, FS_CardinalityType DEF Collected

-------------------------------------------------------------------------------
(* Truth: steps that leave a part of it alone                               *)

(* An example that is attempted is evaluated: nothing has completed yet.    *)
LEMMA ActiveFacts ==
  ASSUME IInv, NEW e \in 1..Examples, pc[e] # "idle"
  PROVE  verdict = None
BY DEF IInv, PoolInv, Ended, Bounds, Manned

LEMMA EvidenceStill ==
  ASSUME IInv, UNCHANGED <<outcomes, seen, started>>, Deafened => Deafened',
         \A i \in 1..Examples :
           /\ pc'[i] \in Untold => pc[i] \in Untold
           /\ pc[i] \in Untold => pc'[i] \in Untold \/ Deafened'
           /\ pc'[i] \in {"announcing", "attempting"} => pc[i] \in {"announcing", "attempting"}
  PROVE  Evidence'
BY DEF IInv, Truth, Evidence

LEMMA AnnouncedStill ==
  ASSUME IInv, UNCHANGED <<rounds, outcomes, started>>, Deafened => Deafened',
         \A i \in 1..Examples : pc'[i] = "announcing" <=> pc[i] = "announcing"
  PROVE  Announced'
<1>1. Announcing' = Announcing
  BY DEF Announcing, Within
<1>. QED BY <1>1 DEF IInv, Truth, Announced

LEMMA CountingStill ==
  ASSUME IInv, UNCHANGED <<outcomes, errors, exhausted>>,
         verdict = "Died" => verdict' = "Died",
         \A i \in 1..Examples :
           /\ (pc'[i] = "giving up" \/ trial'[i] = "failed")
                <=> (pc[i] = "giving up" \/ trial[i] = "failed")
           /\ trial'[i] = "interrupted" => trial[i] = "interrupted"
  PROVE  Counting'
BY DEF IInv, Truth, Counting

(* Before the evaluation has ended there is nothing to complete.            *)
LEMMA CompletingStill ==
  ASSUME IInv, verdict = None, UNCHANGED <<counts, result>>
  PROVE  Completing'
<1>1. counts \in Seq([accepted : Nat, rejected : Nat]) /\ counts = <<>>
  BY TeacherTraceAssumption DEF IInv, Truth, Completing
<1>2. Len(counts') = 0
  BY <1>1
<1>3. ~(result # None /\ result.tag # "Died")
  BY TeacherTraceAssumption DEF IInv, Truth, Completing
<1>. QED BY <1>1, <1>2, <1>3 DEF Completing

(* What the examples' steps do to their trials.                             *)
LEMMA ExampleTurns ==
  ASSUME IInv, NEW e \in 1..Examples
  PROVE  /\ Visit(e) => Turns(e, "waiting", "running") /\ verdict = None
         /\ Skip(e) => Turns(e, "waiting", "skipped") /\ verdict = None
         /\ Leave(e) => Turns(e, "running", "completed")
         /\ GiveUp(e) => Turns(e, "running", "failed")
         /\ Visit(e) \/ Skip(e) \/ Leave(e) \/ GiveUp(e) => UNCHANGED verdict
BY DEF IInv, PoolInv, Pool!TypeOK, Pool!Trials, Visit, Skip, Leave, GiveUp, Evaluation!Start,
       Evaluation!Skip, Evaluation!Turn, Evaluation!Complete, Evaluation!Fail, Turns

(* Where an example goes, the others stay.                                  *)
LEMMA Goes ==
  ASSUME IInv, NEW e \in 1..Examples, NEW there, Go(e, there)
  PROVE  pc'[e] = there /\ \A i \in (1..Examples) \ {e} : pc'[i] = pc[i]
BY DEF IInv, Bounds, Types, Go

(* What the observer does with an event.                                    *)
LEMMA Emits ==
  ASSUME IInv, NEW e \in 1..Examples,
         Announce(e) \/ Tell(e) \/ GiveUp(e) \/ CompleteRound
  PROVE  Deafened /\ UNCHANGED verdict => Deafened'
<1>1. deaf' = deaf \/ deaf' = TRUE
  BY DEF Announce, Tell, GiveUp, CompleteRound, Acknowledge, Emit
<1>. QED BY <1>1 DEF Deafened

-------------------------------------------------------------------------------
(* Truth: one lemma per step                                                *)

LEMMA VisitTruth ==
  ASSUME IInv, NEW e \in 1..Examples, Visit(e)
  PROVE  Truth'
<1>1. Turns(e, "waiting", "running") /\ verdict = None /\ UNCHANGED verdict
  BY ExampleTurns
<1>2. pc[e] = "idle"
  BY <1>1 DEF IInv, Bounds, Manned, Turns
<1>3. PICK there \in {"visited", "turning"} : Go(e, there)
  BY DEF Visit
<1>4. pc'[e] = there /\ \A i \in (1..Examples) \ {e} : pc'[i] = pc[i]
  BY <1>3, Goes
<1>5. UNCHANGED <<outcomes, seen, started, rounds, counts, errors, exhausted, deaf, result>>
  BY DEF Visit, refVars, observerVars
<1>6. Evidence'
  BY <1>1, <1>2, <1>4, <1>5, EvidenceStill DEF Untold, Deafened
<1>7. Announced'
  BY <1>1, <1>2, <1>4, <1>5, AnnouncedStill DEF Deafened
<1>8. Counting'
  BY <1>1, <1>2, <1>4, <1>5, CountingStill DEF Turns
<1>9. Completing'
  BY <1>1, <1>5, CompletingStill
<1>. QED BY <1>6, <1>7, <1>8, <1>9 DEF Truth

LEMMA SkipTruth ==
  ASSUME IInv, NEW e \in 1..Examples, Skip(e)
  PROVE  Truth'
<1>1. Turns(e, "waiting", "skipped") /\ verdict = None /\ UNCHANGED verdict
  BY ExampleTurns
<1>2. UNCHANGED <<pc, outcomes, seen, started, rounds, counts, errors, exhausted, deaf, result>>
  BY DEF Skip, refVars, observerVars
<1>3. Evidence' /\ Announced'
  BY <1>1, <1>2, EvidenceStill, AnnouncedStill DEF Deafened
<1>4. Counting'
  BY <1>1, <1>2, CountingStill DEF Turns
<1>5. Completing'
  BY <1>1, <1>2, CompletingStill
<1>. QED BY <1>3, <1>4, <1>5 DEF Truth

LEMMA StopTruth ==
  ASSUME IInv, NEW e \in 1..Examples, Stop(e)
  PROVE  Truth'
<1>1. pc[e] = "turning" /\ Go(e, "visited")
  BY DEF Stop
<1>2. pc'[e] = "visited" /\ \A i \in (1..Examples) \ {e} : pc'[i] = pc[i]
  BY <1>1, Goes
<1>3. UNCHANGED <<trial, verdict, outcomes, seen, started, rounds, counts, errors, exhausted, deaf, result>>
  BY DEF Stop, evaluationVars, refVars, observerVars
<1>4. Evidence'
  BY <1>1, <1>2, <1>3, EvidenceStill DEF Untold, Deafened
<1>5. Announced'
  BY <1>1, <1>2, <1>3, AnnouncedStill DEF Deafened
<1>6. Counting'
  BY <1>1, <1>2, <1>3, CountingStill
<1>7. Completing'
  BY <1>1, <1>3, ActiveFacts, CompletingStill
<1>. QED BY <1>4, <1>5, <1>6, <1>7 DEF Truth

LEMMA LeaveTruth ==
  ASSUME IInv, NEW e \in 1..Examples, Leave(e)
  PROVE  Truth'
<1>1. pc[e] = "visited" /\ Go(e, "idle") /\ Turns(e, "running", "completed") /\ UNCHANGED verdict
  BY ExampleTurns DEF Leave
<1>2. pc'[e] = "idle" /\ \A i \in (1..Examples) \ {e} : pc'[i] = pc[i]
  BY <1>1, Goes
<1>3. UNCHANGED <<outcomes, seen, started, rounds, counts, errors, exhausted, deaf, result>>
  BY DEF Leave, refVars, observerVars
<1>4. Evidence'
  BY <1>1, <1>2, <1>3, EvidenceStill DEF Untold, Deafened
<1>5. Announced'
  BY <1>1, <1>2, <1>3, AnnouncedStill DEF Deafened
<1>6. Counting'
  BY <1>1, <1>2, <1>3, CountingStill DEF Turns
<1>7. Completing'
  BY <1>1, <1>3, ActiveFacts, CompletingStill
<1>. QED BY <1>4, <1>5, <1>6, <1>7 DEF Truth

(* The example that announces a round is the first to reach it.             *)
LEMMA StartRoundTruth ==
  ASSUME IInv, NEW e \in 1..Examples, StartRound(e)
  PROVE  Truth'
<1>1. /\ pc[e] = "turning" /\ Len(outcomes[e]) < MaxRounds
      /\ UNCHANGED <<trial, verdict, outcomes, seen, rounds, counts, errors, exhausted, deaf, result>>
  BY DEF StartRound, Round, evaluationVars, observerVars
<1>2. /\ Len(outcomes[e]) \in Nat /\ started \in Nat /\ Len(outcomes[e]) <= started
      /\ outcomes \in [1..Examples -> Seq(Kinds)]
  BY DEF IInv, Truth, Evidence
<1>3. Deafened' = Deafened
  BY <1>1 DEF Deafened
<1>4. CASE Len(outcomes[e]) >= started
  <2>1. started' = started + 1 /\ Len(outcomes[e]) = started /\ Go(e, "announcing")
    BY <1>2, <1>4 DEF StartRound, Round
  <2>2. pc'[e] = "announcing" /\ \A i \in (1..Examples) \ {e} : pc'[i] = pc[i]
    BY <2>1, Goes
  <2>3. Evidence'
    <3>1. \A i \in 1..Examples : Len(outcomes[i]) \in Nat
      BY <1>2
    <3>2. started' \in Nat /\ started' > started
      BY <1>2, <2>1
    <3>3. \A i \in 1..Examples :
            /\ pc'[i] \in Untold <=> pc[i] \in Untold
            /\ pc'[i] \in {"announcing", "attempting"} =>
                 i = e \/ pc[i] \in {"announcing", "attempting"}
      BY <1>1, <2>2 DEF Untold
    <3>. QED BY <1>1, <1>2, <1>3, <2>1, <3>1, <3>2, <3>3 DEF IInv, Truth, Evidence
  <2>4. Announcing' = Announcing \cup {e}
    BY <2>2 DEF Announcing, Within
  <2>5. Cardinality(Announcing') = Cardinality(Announcing) + 1
    <3>1. pc[e] \notin {"announcing"} /\ pc'[e] \in {"announcing"}
      BY <1>1, <2>2
    <3>2. Cardinality(Within(pc', {"announcing"})) = Cardinality(Within(pc, {"announcing"})) + 1
      BY <2>2, <3>1, JoiningCounts
    <3>. QED BY <3>2 DEF Announcing
  <2>6. Announced'
    <3>. SUFFICES ASSUME ~Deafened
                  PROVE  /\ Range(rounds) \cup {Len(outcomes[i]) : i \in Announcing'} = 0..started
                         /\ Len(rounds) + Cardinality(Announcing') = started + 1
      BY <1>1, <1>2, <1>3, <2>1 DEF IInv, Truth, Announced
    <3>1. /\ Range(rounds) \cup {Len(outcomes[i]) : i \in Announcing} = 0..(started - 1)
          /\ Len(rounds) + Cardinality(Announcing) = started
          /\ rounds \in Seq(Nat)
      BY DEF IInv, Truth, Announced
    <3>2. Len(rounds) + Cardinality(Announcing') = started + 1
      BY <1>2, <2>5, <3>1, WithinFinite DEF Announcing
    <3>3. 0..started = (0..(started - 1)) \cup {started}
      BY <1>2
    <3>4. {Len(outcomes[i]) : i \in Announcing'} = {Len(outcomes[i]) : i \in Announcing} \cup {started}
      BY <2>1, <2>4
    <3>. QED BY <3>1, <3>2, <3>3, <3>4
  <2>7. Counting'
    BY <1>1, <2>2, CountingStill
  <2>8. Completing'
    BY <1>1, ActiveFacts, CompletingStill
  <2>. QED BY <2>3, <2>6, <2>7, <2>8 DEF Truth
<1>5. CASE Len(outcomes[e]) < started
  <2>1. UNCHANGED started /\ Go(e, "attempting")
    BY <1>2, <1>5 DEF StartRound, Round, Begin
  <2>2. pc'[e] = "attempting" /\ \A i \in (1..Examples) \ {e} : pc'[i] = pc[i]
    BY <2>1, Goes
  <2>3. Evidence'
    <3>1. \A i \in 1..Examples :
            /\ pc'[i] \in Untold <=> pc[i] \in Untold
            /\ pc'[i] \in {"announcing", "attempting"} =>
                 i = e \/ pc[i] \in {"announcing", "attempting"}
      BY <1>1, <2>2 DEF Untold
    <3>. QED BY <1>1, <1>2, <1>3, <1>5, <2>1, <3>1 DEF IInv, Truth, Evidence
  <2>4. Announced'
    BY <1>1, <1>3, <2>1, <2>2, AnnouncedStill
  <2>5. Counting'
    BY <1>1, <2>2, CountingStill
  <2>6. Completing'
    BY <1>1, ActiveFacts, CompletingStill
  <2>. QED BY <2>3, <2>4, <2>5, <2>6 DEF Truth
<1>. QED BY <1>2, <1>4, <1>5

LEMMA RangeAppend ==
  ASSUME NEW S, NEW s \in Seq(S), NEW x
  PROVE  Range(Append(s, x)) = Range(s) \cup {x}
<1>1. /\ Len(s) \in Nat /\ DOMAIN s = 1..Len(s) /\ DOMAIN Append(s, x) = 1..(Len(s) + 1)
      /\ Append(s, x)[Len(s) + 1] = x /\ \A i \in 1..Len(s) : Append(s, x)[i] = s[i]
  OBVIOUS
<1>2. DOMAIN Append(s, x) = DOMAIN s \cup {Len(s) + 1}
  BY <1>1
<1>. QED BY <1>1, <1>2 DEF Range

LEMMA AnnounceTruth ==
  ASSUME IInv, NEW e \in 1..Examples, Announce(e)
  PROVE  Truth'
<1>1. /\ pc[e] = "announcing" /\ Go(e, "attempting")
      /\ UNCHANGED <<trial, verdict, outcomes, seen, started, counts, errors, exhausted, result>>
  BY DEF Announce, Begin, evaluationVars, refVars
<1>2. pc'[e] = "attempting" /\ \A i \in (1..Examples) \ {e} : pc'[i] = pc[i]
  BY <1>1, Goes
<1>3. Deafened => Deafened'
  BY <1>1, Emits
<1>4. \/ UNCHANGED deaf /\ rounds' = Append(rounds, Len(outcomes[e]))
      \/ deaf' = TRUE /\ UNCHANGED rounds
  BY DEF Announce, Emit, Round
<1>5. Evidence'
  <2>1. \A i \in 1..Examples :
          /\ pc'[i] \in Untold <=> pc[i] \in Untold
          /\ pc'[i] \in {"announcing", "attempting"} => pc[i] \in {"announcing", "attempting"}
    BY <1>1, <1>2 DEF Untold
  <2>. QED BY <1>1, <1>3, <2>1, EvidenceStill
<1>6. /\ rounds \in Seq(Nat) /\ Len(outcomes[e]) \in Nat
      /\ outcomes \in [1..Examples -> Seq(Kinds)]
  BY DEF IInv, Truth, Announced, Evidence
<1>7. ASSUME UNCHANGED deaf, rounds' = Append(rounds, Len(outcomes[e]))
      PROVE  Announced'
  <2>1. rounds' \in Seq(Nat) /\ Len(rounds') = Len(rounds) + 1 /\ Len(rounds) \in Nat
    BY <1>6, <1>7
  <2>2. Range(rounds') = Range(rounds) \cup {Len(outcomes[e])}
    BY <1>6, <1>7, RangeAppend
  <2>3. Announcing = Announcing' \cup {e}
    BY <1>1, <1>2 DEF Announcing, Within
  <2>4. {Len(outcomes[i]) : i \in Announcing} = {Len(outcomes[i]) : i \in Announcing'} \cup {Len(outcomes[e])}
    BY <2>3
  <2>5. Cardinality(Announcing') = Cardinality(Announcing) - 1
    <3>1. pc[e] \in {"announcing"} /\ pc'[e] \notin {"announcing"}
      BY <1>1, <1>2
    <3>2. Cardinality(Within(pc', {"announcing"})) = Cardinality(Within(pc, {"announcing"})) - 1
      BY <1>2, <3>1, LeavingCounts
    <3>. QED BY <3>2 DEF Announcing
  <2>6. Cardinality(Announcing) \in Nat
    BY WithinFinite DEF Announcing
  <2>7. ASSUME ~Deafened
        PROVE  /\ Range(rounds') \cup {Len(outcomes[i]) : i \in Announcing'} = 0..(started - 1)
               /\ Len(rounds') + Cardinality(Announcing') = started
    <3>1. /\ Range(rounds) \cup {Len(outcomes[i]) : i \in Announcing} = 0..(started - 1)
          /\ Len(rounds) + Cardinality(Announcing) = started
      BY <2>7 DEF IInv, Truth, Announced
    <3>2. Range(rounds') \cup {Len(outcomes[i]) : i \in Announcing'} = 0..(started - 1)
      BY <2>2, <2>4, <3>1
    <3>3. Len(rounds') + Cardinality(Announcing') = started
      BY <2>1, <2>5, <2>6, <3>1
    <3>. QED BY <3>2, <3>3
  <2>8. Deafened' = Deafened
    BY <1>1, <1>7 DEF Deafened
  <2>. QED BY <1>1, <2>1, <2>7, <2>8 DEF Announced
<1>8. ASSUME deaf' = TRUE, UNCHANGED rounds
      PROVE  Announced'
  BY <1>6, <1>8 DEF Announced, Deafened
<1>9. Announced'
  BY <1>4, <1>7, <1>8
<1>10. Counting'
  BY <1>1, <1>2, CountingStill
<1>11. Completing'
  BY <1>1, ActiveFacts, CompletingStill
<1>. QED BY <1>5, <1>9, <1>10, <1>11 DEF Truth

(* The evidence grows by what the attempt came to, and is untold yet.       *)
LEMMA AttemptTruth ==
  ASSUME IInv, NEW e \in 1..Examples, NEW o \in Kinds, Attempt(e, o)
  PROVE  Truth'
<1>1. /\ pc[e] = "attempting" /\ outcomes' = [outcomes EXCEPT ![e] = Append(outcomes[e], o)]
      /\ UNCHANGED <<trial, verdict, started, seen, rounds, counts, deaf, result>>
  BY DEF Attempt, evaluationVars, observerVars
<1>2. /\ outcomes \in [1..Examples -> Seq(Kinds)] /\ outcomes[e] \in Seq(Kinds)
      /\ Len(outcomes[e]) \in Nat /\ Len(outcomes[e]) < MaxRounds /\ Len(outcomes[e]) < started
      /\ started \in Nat
  BY <1>1 DEF IInv, Truth, Evidence
<1>3. /\ outcomes'[e] = Append(outcomes[e], o) /\ outcomes' \in [1..Examples -> Seq(Kinds)]
      /\ \A i \in (1..Examples) \ {e} : outcomes'[i] = outcomes[i]
  BY <1>1, <1>2
<1>4. /\ Len(outcomes'[e]) = Len(outcomes[e]) + 1 /\ outcomes'[e] # <<>>
      /\ Last(outcomes'[e]) = o
  BY <1>2, <1>3 DEF Last
<1>5. Deafened' = Deafened
  BY <1>1 DEF Deafened
<1>6. PICK there \in Untold : Go(e, there)
  BY DEF Attempt, Untold
<1>7. pc'[e] = there /\ \A i \in (1..Examples) \ {e} : pc'[i] = pc[i]
  BY <1>6, Goes
<1>8. Evidence'
  <2>1. outcomes' \in [1..Examples -> Seq(Kinds)] /\ seen' \in [1..Examples -> Seq(Kinds)]
        /\ started' \in Nat
    BY <1>1, <1>2, <1>3 DEF IInv, Truth, Evidence
  <2>2. ASSUME NEW i \in 1..Examples, i # e
        PROVE  /\ Len(outcomes'[i]) <= MaxRounds /\ Len(outcomes'[i]) <= started'
               /\ pc'[i] \in {"announcing", "attempting"} =>
                    Len(outcomes'[i]) < MaxRounds /\ Len(outcomes'[i]) < started'
               /\ pc'[i] \in Untold => outcomes'[i] # <<>>
               /\ ~Deafened' =>
                    outcomes'[i] = IF pc'[i] \in Untold THEN Append(seen'[i], Last(outcomes'[i])) ELSE seen'[i]
    BY <1>1, <1>3, <1>5, <1>7, <2>2 DEF IInv, Truth, Evidence
  <2>3. ~Deafened => outcomes[e] = seen[e]
    BY <1>1 DEF IInv, Truth, Evidence, Untold
  <2>4. /\ Len(outcomes'[e]) <= MaxRounds /\ Len(outcomes'[e]) <= started'
        /\ pc'[e] \notin {"announcing", "attempting"}
        /\ outcomes'[e] # <<>>
        /\ ~Deafened' => outcomes'[e] = Append(seen'[e], Last(outcomes'[e]))
    <3>1. Len(outcomes'[e]) <= MaxRounds /\ Len(outcomes'[e]) <= started'
      BY <1>1, <1>2, <1>4, TeacherTraceAssumption
    <3>2. pc'[e] \notin {"announcing", "attempting"}
      BY <1>7 DEF Untold
    <3>3. ~Deafened' => outcomes'[e] = Append(seen'[e], Last(outcomes'[e]))
      BY <1>1, <1>3, <1>4, <1>5, <2>3
    <3>. QED BY <1>4, <3>1, <3>2, <3>3
  <2>. QED BY <1>7, <2>1, <2>2, <2>4 DEF Evidence
<1>9. Announced'
  <2>1. Announcing' = Announcing /\ e \notin Announcing
    BY <1>1, <1>7 DEF Announcing, Within, Untold
  <2>2. {Len(outcomes'[i]) : i \in Announcing'} = {Len(outcomes[i]) : i \in Announcing}
    BY <1>3, <2>1 DEF Announcing, Within
  <2>. QED BY <1>1, <1>5, <2>1, <2>2 DEF IInv, Truth, Announced
<1>10. Counting'
  <2>a. /\ o = "failure" => Cardinality(Attempts(outcomes', {"failure"}))
                                = Cardinality(Attempts(outcomes, {"failure"})) + 1
        /\ o # "failure" => Attempts(outcomes', {"failure"}) = Attempts(outcomes, {"failure"})
    BY <1>2, <1>3, FailuresGrow
  <2>1. Cardinality(Attempts(outcomes, {"failure"})) = errors /\ errors \in Nat
    BY DEF IInv, Truth, Counting, Bounds, Types
  <2>2. CASE o # "failure"
    <3>1. Attempts(outcomes', {"failure"}) = Attempts(outcomes, {"failure"})
      BY <2>2, <2>a
    <3>2. UNCHANGED <<errors, exhausted>> /\ there = "telling"
      <4>1. errors' = errors /\ exhausted' = (exhausted \/ FALSE) /\ Go(e, "telling")
        BY <2>2 DEF Attempt
      <4>2. there = "telling"
        BY <1>7, <4>1, Goes
      <4>. QED BY <4>1, <4>2 DEF IInv, Bounds, Types
    <3>3. \A i \in 1..Examples : pc'[i] = "giving up" <=> pc[i] = "giving up"
      BY <1>1, <1>7, <3>2
    <3>. QED BY <1>1, <3>1, <3>2, <3>3 DEF IInv, Truth, Counting
  <2>3. CASE o = "failure"
    <3>1. Cardinality(Attempts(outcomes', {"failure"})) = errors + 1
      BY <2>1, <2>3, <2>a
    <3>2. errors' = errors + 1
      BY <2>3 DEF Attempt
    <3>3. CASE Reached
      <4>1. exhausted' = TRUE /\ Go(e, "giving up")
        BY <2>3, <3>3 DEF Attempt
      <4>2. pc'[e] = "giving up"
        BY <4>1, Goes
      <4>3. errors' > 0 /\ errors' >= MaxErrors
        BY <2>1, <3>2, <3>3 DEF Reached
      <4>4. \A i \in 1..Examples : trial'[i] = "interrupted" => verdict' = "Died"
        BY <1>1 DEF IInv, Truth, Counting
      <4>. QED BY <3>1, <3>2, <4>1, <4>2, <4>3, <4>4 DEF Counting
    <3>4. CASE ~Reached
      <4>1. exhausted' = (exhausted \/ FALSE) /\ Go(e, "telling")
        BY <2>3, <3>4 DEF Attempt
      <4>2. exhausted' = exhausted /\ ~(errors' >= MaxErrors)
        BY <3>4, <4>1 DEF IInv, Bounds, Types, Reached
      <4>3. pc'[e] = "telling"
        BY <4>1, Goes
      <4>4. ~(errors >= MaxErrors)
        BY <2>1, <3>2, <4>2, TeacherTraceAssumption
      <4>5. \A i \in 1..Examples : pc'[i] = "giving up" <=> pc[i] = "giving up"
        BY <1>1, <1>7, <4>3
      <4>. QED BY <1>1, <3>1, <3>2, <4>2, <4>4, <4>5 DEF IInv, Truth, Counting
    <3>. QED BY <3>3, <3>4
  <2>. QED BY <2>2, <2>3
<1>11. Completing'
  BY <1>1, ActiveFacts, CompletingStill
<1>. QED BY <1>8, <1>9, <1>10, <1>11 DEF Truth

(* What the observer acknowledges is the attempt that was untold.           *)
LEMMA TellingEvidence ==
  ASSUME IInv, NEW e \in 1..Examples, pc[e] \in Untold, Acknowledge(e),
         UNCHANGED <<outcomes, started, verdict>>,
         pc'[e] \notin Untold, pc'[e] \notin {"announcing", "attempting"},
         \A i \in (1..Examples) \ {e} : pc'[i] = pc[i]
  PROVE  Evidence'
<1>1. /\ outcomes \in [1..Examples -> Seq(Kinds)] /\ seen \in [1..Examples -> Seq(Kinds)]
      /\ outcomes[e] \in Seq(Kinds) /\ outcomes[e] # <<>> /\ seen[e] \in Seq(Kinds)
      /\ started \in Nat
  BY DEF IInv, Truth, Evidence
<1>2. Last(outcomes[e]) \in Kinds
  BY <1>1 DEF Last
<1>3. ~Deafened => outcomes[e] = Append(seen[e], Last(outcomes[e]))
  BY DEF IInv, Truth, Evidence
<1>4. \/ UNCHANGED deaf /\ seen' = [seen EXCEPT ![e] = Append(seen[e], Last(outcomes[e]))]
      \/ deaf' = TRUE /\ UNCHANGED seen
  BY DEF Acknowledge, Emit
<1>5. ASSUME NEW i \in 1..Examples
      PROVE  /\ Len(outcomes'[i]) <= MaxRounds /\ Len(outcomes'[i]) <= started'
             /\ pc'[i] \in {"announcing", "attempting"} =>
                  Len(outcomes'[i]) < MaxRounds /\ Len(outcomes'[i]) < started'
             /\ pc'[i] \in Untold => outcomes'[i] # <<>>
  BY <1>1 DEF IInv, Truth, Evidence
<1>6. CASE UNCHANGED deaf /\ seen' = [seen EXCEPT ![e] = Append(seen[e], Last(outcomes[e]))]
  <2>1. Append(seen[e], Last(outcomes[e])) \in Seq(Kinds)
    BY <1>1, <1>2
  <2>2. /\ seen' \in [1..Examples -> Seq(Kinds)] /\ seen'[e] = Append(seen[e], Last(outcomes[e]))
        /\ \A i \in (1..Examples) \ {e} : seen'[i] = seen[i]
    BY <1>1, <1>6, <2>1
  <2>3. Deafened' = Deafened
    BY <1>6 DEF Deafened
  <2>4. ASSUME NEW i \in 1..Examples, ~Deafened
        PROVE  outcomes'[i] = IF pc'[i] \in Untold THEN Append(seen'[i], Last(outcomes'[i])) ELSE seen'[i]
    <3>1. CASE i = e
      BY <1>3, <2>2, <2>4, <3>1
    <3>2. CASE i # e
      BY <2>2, <2>4, <3>2 DEF IInv, Truth, Evidence
    <3>. QED BY <3>1, <3>2
  <2>. QED BY <1>1, <1>5, <2>2, <2>3, <2>4 DEF Evidence
<1>7. CASE deaf' = TRUE /\ UNCHANGED seen
  BY <1>1, <1>5, <1>7 DEF Evidence, Deafened
<1>. QED BY <1>4, <1>6, <1>7

LEMMA TellTruth ==
  ASSUME IInv, NEW e \in 1..Examples, Tell(e)
  PROVE  Truth'
<1>1. /\ pc[e] = "telling" /\ Go(e, "turning") /\ Acknowledge(e)
      /\ UNCHANGED <<trial, verdict, outcomes, started, rounds, counts, errors, exhausted, result>>
  BY DEF Tell, evaluationVars, refVars
<1>2. pc'[e] = "turning" /\ \A i \in (1..Examples) \ {e} : pc'[i] = pc[i]
  BY <1>1, Goes
<1>3. Deafened => Deafened'
  BY <1>1, Emits
<1>4. Evidence'
  <2>1. pc[e] \in Untold /\ pc'[e] \notin Untold /\ pc'[e] \notin {"announcing", "attempting"}
    BY <1>1, <1>2 DEF Untold
  <2>. QED BY <1>1, <1>2, <2>1, TellingEvidence
<1>5. Announced'
  BY <1>1, <1>2, <1>3, AnnouncedStill
<1>6. Counting'
  BY <1>1, <1>2, CountingStill
<1>7. Completing'
  BY <1>1, ActiveFacts, CompletingStill
<1>. QED BY <1>4, <1>5, <1>6, <1>7 DEF Truth

LEMMA GiveUpTruth ==
  ASSUME IInv, NEW e \in 1..Examples, GiveUp(e)
  PROVE  Truth'
<1>1. /\ pc[e] = "giving up" /\ Go(e, "idle") /\ Acknowledge(e)
      /\ Turns(e, "running", "failed") /\ UNCHANGED verdict
      /\ UNCHANGED <<outcomes, started, rounds, counts, errors, exhausted, result>>
  BY ExampleTurns DEF GiveUp, refVars
<1>2. pc'[e] = "idle" /\ \A i \in (1..Examples) \ {e} : pc'[i] = pc[i]
  BY <1>1, Goes
<1>3. Deafened => Deafened'
  BY <1>1, Emits
<1>4. Evidence'
  <2>1. pc[e] \in Untold /\ pc'[e] \notin Untold /\ pc'[e] \notin {"announcing", "attempting"}
    BY <1>1, <1>2 DEF Untold
  <2>. QED BY <1>1, <1>2, <2>1, TellingEvidence
<1>5. Announced'
  BY <1>1, <1>2, <1>3, AnnouncedStill
<1>6. Counting'
  BY <1>1, <1>2, CountingStill DEF Turns
<1>7. Completing'
  BY <1>1, ActiveFacts, CompletingStill
<1>. QED BY <1>4, <1>5, <1>6, <1>7 DEF Truth

LEMMA DieTruth ==
  ASSUME IInv, Die
  PROVE  Truth'
<1>1. /\ pc' = [i \in 1..Examples |-> "idle"] /\ result' = [tag |-> "Died"] /\ verdict' = "Died"
      /\ UNCHANGED <<outcomes, seen, started, rounds, counts, errors, exhausted, deaf>>
  BY DEF Die, refVars, observerVars, Evaluation!Die
<1>2. \A i \in 1..Examples :
        trial'[i] = IF trial[i] = "running" THEN "interrupted" ELSE trial[i]
  BY DEF Die, Evaluation!Die, Evaluation!Running, Evaluation!In, Evaluation!Trials
<1>3. verdict = None
  BY DEF IInv, PoolInv, Ended, Die, Evaluation!Die, Evaluation!Running, Evaluation!In, Evaluation!Trials
<1>4. Deafened'
  BY <1>1 DEF Deafened
<1>5. \A i \in 1..Examples : pc'[i] = "idle"
  BY <1>1
<1>6. Evidence'
  BY <1>1, <1>4, <1>5, EvidenceStill DEF Untold
<1>7. Announced'
  BY <1>1, <1>4 DEF IInv, Truth, Announced
<1>8. Counting'
  BY <1>1, <1>2, <1>5 DEF IInv, Truth, Counting
<1>9. Completing'
  <2>1. counts \in Seq([accepted : Nat, rejected : Nat]) /\ counts = <<>>
    BY <1>3, TeacherTraceAssumption DEF IInv, Truth, Completing
  <2>2. Len(counts') = 0
    BY <1>1, <2>1
  <2>3. result'.tag = "Died"
    BY <1>1
  <2>. QED BY <1>1, <2>1, <2>2, <2>3 DEF Completing
<1>. QED BY <1>6, <1>7, <1>8, <1>9 DEF Truth

LEMMA FinishTruth ==
  ASSUME IInv, Finish
  PROVE  Truth'
<1>1. /\ verdict = None /\ verdict' # "Died"
      /\ UNCHANGED <<trial, pc, outcomes, seen, started, rounds, counts, errors, exhausted, deaf, result>>
  BY DEF Finish, Evaluation!Finish, refVars, observerVars
<1>2. Deafened => Deafened'
  BY <1>1, TeacherTraceAssumption DEF Deafened
<1>3. Evidence'
  BY <1>1, <1>2, EvidenceStill
<1>4. Announced'
  BY <1>1, <1>2, AnnouncedStill
<1>5. Counting'
  BY <1>1, CountingStill, TeacherTraceAssumption
<1>6. Completing'
  BY <1>1, CompletingStill
<1>. QED BY <1>3, <1>4, <1>5, <1>6 DEF Truth

(* The counts of one more round are those of the evidence, which is final.  *)
LEMMA CompleteRoundTruth ==
  ASSUME IInv, CompleteRound
  PROVE  Truth'
<1>. DEFINE C(n) == [accepted |-> Collected({"accepted"}, n),
                     rejected |-> Collected({"score", "failure"}, n)]
            R == [accepted : Nat, rejected : Nat]
<1>1. /\ verdict = "Collected"
      /\ UNCHANGED <<trial, verdict, pc, outcomes, seen, started, rounds, errors, exhausted, result>>
  BY DEF CompleteRound, evaluationVars, refVars
<1>2. Deafened => Deafened'
  BY <1>1, Emits DEF CompleteRound, Emit, Deafened
<1>3. Evidence'
  BY <1>1, <1>2, EvidenceStill
<1>4. Announced'
  BY <1>1, <1>2, AnnouncedStill
<1>5. Counting'
  BY <1>1, CountingStill
<1>6. Completing'
  <2>1. \A n : C(n) \in R /\ C(n)' = C(n)
    BY <1>1, CollectedType DEF Collected, Evaluation!In, Evaluation!Trials
  <2>2. counts \in Seq(R) /\ Len(counts) \in Nat /\ \A n \in 1..Len(counts) : counts[n] = C(n)
    BY DEF IInv, Truth, Completing
  <2>3. counts' = counts \/ counts' = Append(counts, C(Len(counts) + 1))
    BY DEF CompleteRound, Emit
  <2>4. counts' \in Seq(R) /\ \A n \in 1..Len(counts') : counts'[n] = C(n)
    <3>1. C(Len(counts) + 1) \in R
      BY <2>1
    <3>. HIDE DEF C, R
    <3>. QED BY <2>2, <2>3, <3>1
  <2>. QED BY <1>1, <2>1, <2>4 DEF Completing
<1>. QED BY <1>3, <1>4, <1>5, <1>6 DEF Truth

LEMMA ConcludeTruth ==
  ASSUME IInv, Conclude
  PROVE  Truth'
<1>1. /\ verdict \in {"Collected", "TooManyFailures"}
      /\ UNCHANGED <<trial, verdict, pc, outcomes, seen, started, rounds, counts, errors, exhausted, deaf>>
  BY DEF Conclude, Concluding, evaluationVars, refVars, observerVars
<1>2. Deafened' = Deafened
  BY <1>1 DEF Deafened
<1>3. Evidence' /\ Announced' /\ Counting'
  BY <1>1, <1>2, EvidenceStill, AnnouncedStill, CountingStill
<1>4. \A K, n : Collected(K, n)' = Collected(K, n)
  BY <1>1 DEF Collected, Evaluation!In, Evaluation!Trials
<1>5. Completing'
  BY <1>1, <1>4 DEF IInv, Truth, Completing
<1>. QED BY <1>3, <1>5 DEF Truth

-------------------------------------------------------------------------------
(* What is answered                                                         *)

(* Once the collection has answered, nothing moves any more.                *)
LEMMA AtRest ==
  ASSUME IInv, [Next]_vars, result # None, result.tag # "Died"
  PROVE  UNCHANGED vars
<1>1. verdict \in {"Collected", "TooManyFailures"}
  BY DEF IInv, Truth, Completing
<1>2. /\ verdict # None
      /\ \A e \in 1..Examples : trial[e] # "running" /\ pc[e] = "idle"
  BY <1>1, TeacherTraceAssumption DEF IInv, PoolInv, Ended, Bounds, Manned
<1>3. ASSUME NEW e \in 1..Examples PROVE ~Example(e)
  <2>1. ~Visit(e) /\ ~Skip(e)
    BY <1>2 DEF Visit, Skip, Evaluation!Start, Evaluation!Skip, Evaluation!Turn
  <2>2. ~Stop(e) /\ ~StartRound(e) /\ ~Announce(e) /\ ~Tell(e) /\ ~GiveUp(e) /\ ~Leave(e)
    BY <1>2 DEF Stop, StartRound, Announce, Tell, GiveUp, Leave
  <2>3. \A outcome \in Kinds : ~Attempt(e, outcome)
    BY <1>2 DEF Attempt
  <2>. QED BY <2>1, <2>2, <2>3 DEF Example, Kinds
<1>4. ~Finish /\ ~Die
  BY <1>2 DEF Finish, Evaluation!Finish, Die, Evaluation!Die, Evaluation!Running,
              Evaluation!In, Evaluation!Trials
<1>5. ~CompleteRound /\ ~Conclude
  BY DEF CompleteRound, Conclude, Concluding
<1>. QED BY <1>3, <1>4, <1>5 DEF Next

(* Undisturbed, all evidence has been told when the evaluation is over.     *)
LEMMA AllTold ==
  ASSUME IInv, verdict \in {"Collected", "TooManyFailures"}, ~deaf
  PROVE  /\ outcomes = seen
         /\ \A e \in 1..Examples : pc[e] = "idle"
         /\ errors = Told("failure") /\ errors \in Nat
<1>1. verdict # None /\ ~Deafened
  BY TeacherTraceAssumption DEF Deafened
<1>2. \A e \in 1..Examples : pc[e] = "idle"
  BY <1>1 DEF IInv, PoolInv, Ended, Bounds, Manned
<1>3. \A e \in 1..Examples : outcomes[e] = seen[e]
  BY <1>1, <1>2 DEF IInv, Truth, Evidence, Untold
<1>4. outcomes = seen
  <2>1. /\ outcomes \in [1..Examples -> Seq(Kinds)] /\ seen \in [1..Examples -> Seq(Kinds)]
    BY DEF IInv, Truth, Evidence
  <2>2. /\ outcomes = [e \in 1..Examples |-> outcomes[e]]
        /\ seen = [e \in 1..Examples |-> seen[e]]
    BY <2>1
  <2>3. [e \in 1..Examples |-> outcomes[e]] = [e \in 1..Examples |-> seen[e]]
    BY <1>3
  <2>. QED BY <2>2, <2>3
<1>. QED BY <1>2, <1>4 DEF IInv, Truth, Counting, Told, Bounds, Types

LEMMA FailedExhausts ==
  ASSUME CollectBudget, IInv, verdict = "TooManyFailures"
  PROVE  errors >= MaxErrors
<1>1. failures > 0 /\ failures = Cardinality(Within(trial, {"failed"}))
  BY DEF CollectBudget, Tolerated, IInv, PoolInv, Ended, Spent, Counted, Pool!TypeOK
<1>2. Within(trial, {"failed"}) # {}
  BY <1>1, FS_EmptySet
<1>3. exhausted
  BY <1>2 DEF Within, IInv, Truth, Counting
<1>. QED BY <1>3 DEF IInv, Truth, Counting

(* Collected, every example is, and the limit was not reached.              *)
LEMMA AllCollected ==
  ASSUME CollectBudget, IInv, verdict = "Collected"
  PROVE  /\ Evaluation!In({"completed"}) = 1..Examples
         /\ ~exhausted
<1>1. /\ verdict # None /\ verdict # "Died"
      /\ ~Spent /\ failures \in Nat
  BY TeacherTraceAssumption DEF IInv, PoolInv, Ended, Pool!TypeOK
<1>2. \A e \in 1..Examples :
        /\ trial[e] \in {"waiting", "running", "completed", "failed", "skipped", "interrupted"}
        /\ trial[e] # "waiting" /\ trial[e] # "running" /\ trial[e] # "skipped"
  BY <1>1 DEF IInv, PoolInv, Ended, Pool!TypeOK, Pool!Trials
<1>3. \A e \in 1..Examples : trial[e] # "failed"
  <2>1. failures = 0
    BY <1>1 DEF Spent, CollectBudget, Tolerated
  <2>2. Within(trial, {"failed"}) = {}
    BY <2>1, WithinFinite, FS_EmptySet DEF IInv, PoolInv, Counted
  <2>. QED BY <2>2 DEF Within
<1>4. \A e \in 1..Examples : trial[e] # "interrupted" /\ pc[e] # "giving up"
  BY <1>1 DEF IInv, Truth, Counting, PoolInv, Ended, Bounds, Manned
<1>5. \A e \in 1..Examples : trial[e] = "completed"
  BY <1>2, <1>3, <1>4
<1>6. Evaluation!In({"completed"}) = 1..Examples
  BY <1>5 DEF Evaluation!In, Evaluation!Trials
<1>7. ~exhausted
  BY <1>1, <1>3, <1>4 DEF IInv, Truth, Counting
<1>. QED BY <1>6, <1>7

(* All of it is then counted by the last round.                             *)
LEMMA LastRoundCounts ==
  ASSUME IInv, Evaluation!In({"completed"}) = 1..Examples, NEW K
  PROVE  Collected(K, started) = Cardinality(Attempts(outcomes, K))
<1>1. ASSUME NEW a \in Attempts(outcomes, K)
      PROVE  a[1] \in 1..Examples /\ a[2] <= started
  <2>1. a[1] \in 1..Examples /\ a[2] \in 1..MaxRounds /\ a[2] \in DOMAIN outcomes[a[1]]
    BY <1>1 DEF Attempts
  <2>2. outcomes[a[1]] \in Seq(Kinds) /\ Len(outcomes[a[1]]) <= started /\ started \in Nat
    BY <2>1 DEF IInv, Truth, Evidence
  <2>3. a[2] \in 1..Len(outcomes[a[1]]) /\ Len(outcomes[a[1]]) \in Nat
    BY <2>1, <2>2
  <2>. QED BY <2>1, <2>2, <2>3
<1>2. {a \in Attempts(outcomes, K) : a[1] \in Evaluation!In({"completed"}) /\ a[2] <= started}
        = Attempts(outcomes, K)
  BY <1>1
<1>. QED BY <1>2 DEF Collected

LEMMA AnswersTruly ==
  ASSUME CollectBudget, IInv, Conclude
  PROVE  ResultTruthful'
<1>1. /\ verdict \in {"Collected", "TooManyFailures"}
      /\ UNCHANGED <<trial, verdict, pc, outcomes, seen, started, rounds, counts, errors, exhausted, deaf>>
  BY DEF Conclude, Concluding, evaluationVars, refVars, observerVars
<1>2. \A kind : Told(kind)' = Told(kind)
  BY <1>1 DEF Told, Attempts
<1>3. CASE deaf
  <2>1. result' = [tag |-> "ObserverFailed"]
    BY <1>3 DEF Conclude
  <2>2. result'.tag = "ObserverFailed"
    BY <2>1
  <2>. QED BY <1>1, <1>3, <2>2 DEF ResultTruthful
<1>4. CASE ~deaf /\ verdict = "TooManyFailures"
  <2>1. result' = [tag |-> "TooManyErrors", count |-> errors]
    BY <1>4 DEF Conclude
  <2>2. result'.tag = "TooManyErrors" /\ result'.count = errors
    BY <2>1
  <2>3. errors = Told("failure") /\ errors >= MaxErrors
    BY <1>1, <1>4, AllTold, FailedExhausts
  <2>. QED BY <1>1, <1>2, <1>4, <2>2, <2>3 DEF ResultTruthful
<1>5. CASE ~deaf /\ verdict = "Collected"
  <2>1. /\ result' = [tag |-> "Collected",
                      evidence |-> [e \in Evaluation!In({"completed"}) |-> outcomes[e]]]
        /\ Len(counts) = started
    BY <1>5 DEF Conclude
  <2>2. result'.tag = "Collected" /\ result'.evidence = [e \in Evaluation!In({"completed"}) |-> outcomes[e]]
    BY <2>1
  <2>3. outcomes = seen /\ errors = Told("failure") /\ errors \in Nat
    BY <1>5, AllTold
  <2>4. Evaluation!In({"completed"}) = 1..Examples /\ ~exhausted
    BY <1>5, AllCollected
  <2>5. result'.evidence = seen
    BY <2>2, <2>3, <2>4 DEF IInv, Truth, Evidence
  <2>6. Told("failure") < MaxErrors \/ Told("failure") = 0
    <3>1. ~(errors > 0 /\ errors >= MaxErrors)
      BY <2>4 DEF IInv, Truth, Counting
    <3>. QED BY <2>3, <3>1, TeacherTraceAssumption
  <2>7. Range(rounds) = 0..(started - 1) /\ Len(rounds) = started
    <3>1. Announcing = {} /\ ~Deafened
      BY <1>1, <1>5, AllTold DEF Announcing, Within, Deafened
    <3>2. {Len(outcomes[e]) : e \in Announcing} = {} /\ Cardinality(Announcing) = 0
      BY <3>1, FS_EmptySet
    <3>3. /\ Range(rounds) \cup {Len(outcomes[e]) : e \in Announcing} = 0..(started - 1)
          /\ Len(rounds) + Cardinality(Announcing) = started
          /\ Len(rounds) \in Nat
      BY <3>1 DEF IInv, Truth, Announced
    <3>4. Range(rounds) = 0..(started - 1)
      BY <3>2, <3>3
    <3>5. Len(rounds) = started
      BY <3>2, <3>3
    <3>. QED BY <3>4, <3>5
  <2>8. started > 0 =>
          Last(counts) = [accepted |-> Told("accepted"), rejected |-> Told("score") + Told("failure")]
    <3>. SUFFICES ASSUME started > 0
                  PROVE  Last(counts) = [accepted |-> Told("accepted"),
                                         rejected |-> Told("score") + Told("failure")]
      OBVIOUS
    <3>1. started \in 1..Len(counts)
      BY <2>1 DEF IInv, Truth, Evidence
    <3>2. Last(counts) = [accepted |-> Collected({"accepted"}, started),
                          rejected |-> Collected({"score", "failure"}, started)]
      BY <2>1, <3>1 DEF IInv, Truth, Completing, Last
    <3>3. /\ Collected({"accepted"}, started) = Told("accepted")
          /\ Collected({"score", "failure"}, started) = Cardinality(Attempts(seen, {"score", "failure"}))
      BY <2>3, <2>4, LastRoundCounts DEF Told
    <3>4. Cardinality(Attempts(seen, {"score", "failure"})) = Told("score") + Told("failure")
      BY AttemptsSplit DEF Told
    <3>. QED BY <3>2, <3>3, <3>4
  <2>. QED BY <1>1, <1>2, <1>5, <2>2, <2>5, <2>6, <2>7, <2>8 DEF ResultTruthful
<1>. QED BY <1>1, <1>3, <1>4, <1>5

-------------------------------------------------------------------------------
(* Theorems about the collection                                            *)

LEMMA InitHolds ==
  ASSUME CollectBudget, Init
  PROVE  IInv
<1>1. PoolInv
  BY SameInit, PoolInit DEF Init, CollectBudget, Tolerated
<1>2. /\ trial = [e \in 1..Examples |-> "waiting"] /\ verdict = None
      /\ pc = [e \in 1..Examples |-> "idle"]
      /\ outcomes = [e \in 1..Examples |-> <<>>] /\ seen = [e \in 1..Examples |-> <<>>]
      /\ live = 0 /\ errors = 0 /\ exhausted = FALSE /\ started = 0
      /\ deaf = FALSE /\ rounds = <<>> /\ counts = <<>> /\ late = 0 /\ result = None
  BY DEF Init, Evaluation!Init, Evaluation!Trials
<1>3. Announcing = {} /\ Busy = {} /\ Cardinality({}) = 0
  BY <1>2, FS_EmptySet DEF Announcing, Busy, Within
<1>4. Bounds
  BY <1>2, <1>3, TeacherTraceAssumption DEF Bounds, Types, Places, Manned, Lateness, Overshoot, Halted
<1>5. Evidence
  <2>1. <<>> \in Seq(Kinds) /\ Len(<<>>) = 0
    OBVIOUS
  <2>. QED BY <1>2, <2>1, TeacherTraceAssumption DEF Evidence, Untold
<1>6. Announced
  <2>1. {Len(outcomes[e]) : e \in Announcing} = {} /\ Range(rounds) = {} /\ 0..(started - 1) = {}
    BY <1>2, <1>3 DEF Range
  <2>. QED BY <1>2, <1>3, <2>1 DEF Announced
<1>7. Counting
  <2>1. Attempts(outcomes, {"failure"}) = {}
    BY <1>2 DEF Attempts
  <2>a. Cardinality(Attempts(outcomes, {"failure"})) = 0
    BY <2>1, FS_EmptySet
  <2>2. errors = Cardinality(Attempts(outcomes, {"failure"})) /\ ~exhausted /\ ~(errors > 0)
    BY <1>2, <2>a
  <2>3. \A e \in 1..Examples : pc[e] = "idle" /\ trial[e] = "waiting"
    BY <1>2
  <2>. QED BY <2>2, <2>3 DEF Counting
<1>8. Completing
  BY <1>2 DEF Completing
<1>. QED BY <1>1, <1>2, <1>4, <1>5, <1>6, <1>7, <1>8 DEF IInv, Truth, ResultTruthful

LEMMA BoundsPreserved ==
  ASSUME PoolInv, Bounds, Next
  PROVE  Bounds'
<1>1. ASSUME NEW e \in 1..Examples, Example(e)
      PROVE  Bounds'
  BY <1>1, VisitPreserves, RestPreserves, StartRoundPreserves, AnnouncePreserves,
     AttemptEffect, AttemptPreserves DEF Example, Places
<1>2. CASE Die
  BY <1>2, DiePreserves
<1>3. CASE Finish
  BY <1>3, Still DEF Finish, Evaluation!Finish, refVars, observerVars, Bounds, Types
<1>4. CASE CompleteRound
  <2>1. deaf' = deaf \/ deaf' = TRUE
    BY <1>4 DEF CompleteRound, Emit
  <2>2. deaf' \in BOOLEAN /\ (deaf => deaf')
    BY <2>1 DEF Bounds, Types
  <2>. QED BY <1>4, <2>2, Still DEF CompleteRound, evaluationVars, refVars
<1>5. CASE Conclude
  BY <1>5, Still DEF Conclude, vars, evaluationVars, refVars, observerVars, Bounds, Types
<1>. QED BY <1>1, <1>2, <1>3, <1>4, <1>5 DEF Next

LEMMA NextPreserves ==
  ASSUME CollectBudget, IInv, [Next]_vars
  PROVE  IInv'
<1>1. PoolInv'
  BY EvaluationSteps, SameStep, PoolPreserves DEF IInv, CollectBudget, Tolerated
<1>2. CASE UNCHANGED vars
  <2>1. /\ UNCHANGED <<trial, failures, verdict, outcomes, live, errors, exhausted, started>>
        /\ UNCHANGED <<deaf, rounds, seen, counts, pc, late, result>>
    BY <1>2 DEF vars, evaluationVars, refVars, observerVars
  <2>2. Bounds'
    BY <2>1 DEF IInv, Bounds, Types, Manned, Lateness, Overshoot, Halted, Announcing, Busy, Within
  <2>3. Deafened' = Deafened
    BY <2>1 DEF Deafened
  <2>4. Evidence' /\ Announced' /\ Counting'
    BY <2>1, <2>3, EvidenceStill, AnnouncedStill, CountingStill
  <2>5. \A K, n : Collected(K, n)' = Collected(K, n)
    BY <2>1 DEF Collected, Evaluation!In, Evaluation!Trials
  <2>6. Completing'
    BY <2>1, <2>5 DEF IInv, Truth, Completing
  <2>7. ResultTruthful'
    BY <2>1 DEF IInv, ResultTruthful, Told, Attempts
  <2>. QED BY <1>1, <2>2, <2>4, <2>6, <2>7 DEF IInv, Truth
<1>3. CASE Next
  <2>1. Bounds'
    BY <1>3, BoundsPreserved DEF IInv
  <2>2. Truth'
    BY <1>3, VisitTruth, SkipTruth, StopTruth, StartRoundTruth, AnnounceTruth, AttemptTruth,
      TellTruth, GiveUpTruth, LeaveTruth, FinishTruth, DieTruth, CompleteRoundTruth,
      ConcludeTruth DEF Next, Example, Kinds
  <2>3. ResultTruthful'
    <3>1. CASE Conclude
      BY <3>1, AnswersTruly
    <3>2. CASE result # None /\ result.tag # "Died"
      <4>1. UNCHANGED vars
        BY <1>3, <3>2, AtRest
      <4>. QED BY <4>1 DEF vars, refVars, observerVars, IInv, ResultTruthful, Told, Attempts
    <3>3. CASE ~Conclude /\ ~(result # None /\ result.tag # "Died")
      <4>1. result' = result \/ result' = [tag |-> "Died"]
        BY <1>3, <3>3 DEF Next, Example, Visit, Skip, Stop, StartRound, Announce, Attempt, Tell,
          GiveUp, Leave, Finish, Die, CompleteRound
      <4>2. ~(result' # None /\ result'.tag # "Died")
        BY <3>3, <4>1
      <4>. QED BY <4>2 DEF ResultTruthful
    <3>. QED BY <3>1, <3>2, <3>3
  <2>. QED BY <1>1, <2>1, <2>2, <2>3 DEF IInv
<1>. QED BY <1>2, <1>3

LEMMA InvImplies ==
  ASSUME CollectBudget, IInv
  PROVE  HaltBounded
<1>1. Cardinality(Announcing) \in Nat /\ Cardinality(Busy) \in Nat
  BY WithinFinite DEF Announcing, Busy
<1>2. late <= Concurrency
  BY <1>1, TeacherTraceAssumption DEF IInv, Bounds, Types, Lateness
<1>3. MaxErrors > 0 => errors <= MaxErrors - 1 + Concurrency
  BY <1>1, TeacherTraceAssumption DEF IInv, Bounds, Types, Overshoot
<1>4. Pool!OvershootBounded
  BY PoolImplies DEF IInv, CollectBudget, Tolerated
<1>5. Evaluation!OvershootBounded
  BY <1>4, SameCount DEF Pool!OvershootBounded, Evaluation!OvershootBounded, Pool!In,
    Evaluation!In, Pool!Trials, Evaluation!Trials, Pool!Running, Evaluation!Running, CollectBudget
<1>. QED BY <1>2, <1>3, <1>5 DEF HaltBounded

(* What visiting the examples does to the evaluation is a behaviour of       *)
(* runCollecting as Collecting.tla specifies it, so that its theorems hold   *)
(* of the collection's evaluation.                                          *)
THEOREM CollectsExamples == Spec => Evaluation!Spec
<1>1. Init => Evaluation!Init
  BY DEF Init
<1>2. [Next]_vars => [Evaluation!Next]_(Evaluation!vars)
  BY EvaluationSteps DEF evaluationVars, Evaluation!vars
<1>. QED BY <1>1, <1>2, PTL DEF Spec, Evaluation!Spec

(* After the limit on errors is reached or the observer has failed, no more  *)
(* attempts begin than there are fibers; attempts fail at most concurrency - *)
(* 1 times beyond the limit; and the examples that fail stay within what     *)
(* runCollecting tolerates (TeacherTrace.collect, visit).                   *)
THEOREM HaltIsBounded ==
  ASSUME CollectBudget
  PROVE  Spec => []HaltBounded
<1>1. Init => IInv
  BY InitHolds
<1>2. IInv /\ [Next]_vars => IInv'
  BY NextPreserves
<1>3. IInv => HaltBounded
  BY InvImplies
<1>. QED BY <1>1, <1>2, <1>3, PTL DEF Spec

(* What collect answers agrees with what its observer acknowledged: a failed *)
(* observer is reported and nothing else is; an error names every failed     *)
(* attempt and has reached the limit; a collection is all of the evidence,   *)
(* its rounds were announced once each, and its last count is the total      *)
(* (TeacherTrace.collect).                                                  *)
THEOREM ResultIsTruthful ==
  ASSUME CollectBudget
  PROVE  Spec => []ResultTruthful
<1>1. Init => IInv
  BY InitHolds
<1>2. IInv /\ [Next]_vars => IInv'
  BY NextPreserves
<1>3. IInv => ResultTruthful
  BY DEF IInv
<1>. QED BY <1>1, <1>2, <1>3, PTL DEF Spec
===============================================================================
