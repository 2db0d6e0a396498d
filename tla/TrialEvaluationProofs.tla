------------------------- MODULE TrialEvaluationProofs -------------------------
(***************************************************************************)
(* What the evaluation of trials guarantees, for every set of trials,        *)
(* configurations and values and any retry schedule.  The cache's theorems   *)
(* are those of KeyedCacheProofs, instantiated: its invariant is one part of *)
(* IInv.  The other parts say what each phase of a trial implies (Shape),    *)
(* that what a trial resolved is still stored (Kept) and that an ended trial *)
(* holds nothing (Left).  ReportsInv relates the steps reported, on their    *)
(* way and told.                                                            *)
(***************************************************************************)
EXTENDS TrialEvaluation, TLAPS

Locked == INSTANCE KeyedCacheProofs WITH Fibers <- Trials, Keys <- Configs

LEMMA CacheAssumed == Locked!KeyedCacheAssumption
BY TrialEvaluationAssumption DEF Locked!KeyedCacheAssumption, Cache!Stored, Cache!Ops, Locked!Stored,
                                  Locked!Ops

LEMMA SameCache ==
  ASSUME [Cache!Next]_cacheVars
  PROVE  [Locked!Next]_(Locked!vars)
BY DEF Cache!Next, Locked!Next, cacheVars, Locked!vars, Cache!Operate, Locked!Operate,
  Cache!Call, Locked!Call, Cache!Refer, Locked!Refer, Cache!Acquire, Locked!Acquire,
  Cache!ReadLocal, Locked!ReadLocal, Cache!Fetch, Locked!Fetch, Cache!Fill, Locked!Fill,
  Cache!Land, Locked!Land, Cache!Publish, Locked!Publish, Cache!Quit, Locked!Quit,
  Cache!Break, Locked!Break, Cache!Compute, Locked!Compute, Cache!Evict, Locked!Evict,
  Cache!Pass, Locked!Pass, Cache!Leave, Locked!Leave, Cache!Reply, Locked!Reply,
  Cache!Decode, Locked!Decode, Cache!Go, Locked!Go, Cache!Shares, Locked!Shares,
  Cache!Inside, Locked!Inside, Cache!Failed, Locked!Failed, Cache!Found, Locked!Found,
  Cache!Made, Locked!Made, Cache!Ops, Locked!Ops, Cache!Stored, Locked!Stored

LEMMA CacheKept ==
  ASSUME Locked!IInv, [Cache!Next]_cacheVars
  PROVE  Locked!IInv'
BY CacheAssumed, SameCache, Locked!NextPreserves

-------------------------------------------------------------------------------
Records == [op : Cache!Ops, key : Configs, value : Cache!Stored]

(* A trial only ever asks the cache to resolve its own configuration.       *)
Resolves ==
  \A t \in Trials : pc[t] # "idle" =>
    call[t] \in Records /\ call[t].op = "resolve" /\ call[t].key = config[t]

(* The cache's state as far as a trial's step looks at it.                  *)
LEMMA CacheTypes ==
  ASSUME Locked!IInv
  PROVE  /\ store \in [Configs -> Cache!Stored]
         /\ pc \in [Trials -> {"idle", "entering", "waiting", "reading", "fetched",
                               "computing", "writing", "landed"}]
         /\ call \in [Trials -> Records \cup {None}]
         /\ \A t \in Trials : pc[t] = "idle" => sem[t] = None
BY DEF Locked!IInv, Locked!TypeOK, Locked!Locks, Locked!Referring, Locked!Stored, Locked!Ops,
       Cache!Stored, Cache!Ops, Records

(* What a step of the cache answers to a resolution is what it stores then,  *)
(* and what is stored is not replaced.                                      *)
LEMMA LeaveEffect ==
  ASSUME Locked!IInv, NEW t \in Trials, NEW a, Cache!Leave(t, a)
  PROVE  /\ pc'[t] = "idle" /\ answer' = a
         /\ \A u \in Trials \ {t} : pc'[u] = pc[u] /\ call'[u] = call[u]
BY CacheTypes DEF Cache!Leave, Cache!Go

Answered(t) ==
  /\ \A u \in Trials \ {t} : pc'[u] = pc[u] /\ call'[u] = call[u]
  /\ pc[t] # "idle"
  /\ \/ /\ answer' = None /\ pc'[t] # "idle"
        /\ call'[t] \in Records /\ call'[t].op = call[t].op /\ call'[t].key = call[t].key
     \/ /\ answer' \in [to : Trials, tag : {"failed", "found", "made"}, value : Cache!Stored]
        /\ answer' # None /\ pc'[t] = "idle"
        /\ answer'.tag = "failed" \/ (answer'.value \in Values /\ store'[config[t]] = answer'.value)
  /\ \A k \in Configs : store[k] \in Values => store'[k] = store[k]

(* The three kinds of answers.                                              *)
LEMMA AnswerTypes ==
  ASSUME NEW t \in Trials, NEW x \in Cache!Stored
  PROVE  \A a \in {Cache!Failed(t), Cache!Found(t, x), Cache!Made(t, x)} :
           /\ a \in [to : Trials, tag : {"failed", "found", "made"}, value : Cache!Stored]
           /\ a # None
           /\ a.tag = "failed" \/ a.value = x
<1>1. None \in Cache!Stored
  BY DEF Cache!Stored
<1>2. \A a \in {Cache!Failed(t), Cache!Found(t, x), Cache!Made(t, x)} :
        /\ a \in [to : Trials, tag : {"failed", "found", "made"}, value : Cache!Stored]
        /\ a.tag = "failed" \/ a.value = x
  BY <1>1 DEF Cache!Failed, Cache!Found, Cache!Made
<1>. QED BY <1>2, TrialEvaluationAssumption

LEMMA LeaveAnswered ==
  ASSUME Locked!IInv, Resolves, NEW t \in Trials, pc[t] # "idle", NEW x \in Cache!Stored,
         NEW a \in {Cache!Failed(t), Cache!Found(t, x), Cache!Made(t, x)}, Cache!Leave(t, a),
         a = Cache!Failed(t) \/ (x \in Values /\ store'[config[t]] = x),
         \A k \in Configs : store[k] \in Values => store'[k] = store[k]
  PROVE  Answered(t)
<1>1. a.tag = "failed" \/ a.value = x
  BY AnswerTypes
<1>2. a = Cache!Failed(t) => a.tag = "failed"
  BY DEF Cache!Failed
<1>. QED BY <1>1, <1>2, LeaveEffect, AnswerTypes DEF Answered

(* A resolution's task changes no more than its value on the way.           *)
LEMMA GoAnswered ==
  ASSUME Locked!IInv, Resolves, NEW t \in Trials, pc[t] # "idle", NEW there,
         there # "idle", Cache!Go(t, there), answer' = None,
         UNCHANGED call \/ \E x \in Cache!Stored : call' = [call EXCEPT ![t].value = x],
         \A k \in Configs : store[k] \in Values => store'[k] = store[k]
  PROVE  Answered(t)
<1>1. call[t] \in Records /\ call \in [Trials -> Records \cup {None}]
  BY CacheTypes DEF Resolves
<1>2. pc'[t] = there /\ \A u \in Trials \ {t} : pc'[u] = pc[u]
  BY CacheTypes DEF Cache!Go
<1>3. /\ \A u \in Trials \ {t} : call'[u] = call[u]
      /\ call'[t] \in Records /\ call'[t].op = call[t].op /\ call'[t].key = call[t].key
  <2>1. CASE UNCHANGED call
    BY <1>1, <2>1
  <2>2. ASSUME NEW x \in Cache!Stored, call' = [call EXCEPT ![t].value = x]
        PROVE  /\ \A u \in Trials \ {t} : call'[u] = call[u]
               /\ call'[t] = [call[t] EXCEPT !.value = x]
    BY <1>1, <2>2
  <2>. QED BY <1>1, <2>1, <2>2 DEF Records
<1>. QED BY <1>2, <1>3 DEF Answered

LEMMA DecodeAnswered ==
  ASSUME Locked!IInv, Resolves, NEW t \in Trials, NEW x \in Cache!Stored,
         pc[t] \in {"reading", "fetched"}, x = store[config[t]], Cache!Decode(t, x),
         UNCHANGED store
  PROVE  Answered(t)
<1>1. call[t].op = "resolve"
  BY DEF Resolves
<1>2. CASE x = None
  <2>1. /\ Cache!Go(t, "computing") /\ answer' = None
        /\ call' = [call EXCEPT ![t].value = None]
    BY <1>1, <1>2 DEF Cache!Decode
  <2>. QED BY <2>1, GoAnswered DEF Cache!Stored
<1>3. CASE x # None
  <2>1. PICK a \in {Cache!Failed(t), Cache!Found(t, x)} :
          Cache!Leave(t, a) /\ (a = Cache!Failed(t) \/ x # Garbled)
    BY <1>3 DEF Cache!Decode, Cache!Reply
  <2>2. a = Cache!Failed(t) \/ (x \in Values /\ store'[config[t]] = x)
    BY <1>3, <2>1 DEF Cache!Stored
  <2>. QED BY <2>1, <2>2, LeaveAnswered
<1>. QED BY <1>2, <1>3

LEMMA OperateAnswered ==
  ASSUME Locked!IInv, Resolves, config \in [Trials -> Configs], NEW t \in Trials,
         Cache!Operate(t)
  PROVE  Answered(t)
<1>. DEFINE Stays == \A k \in Configs : store[k] \in Values => store'[k] = store[k]
<1>0. UNCHANGED store => Stays
  OBVIOUS
<1>1. CASE Cache!Refer(t) \/ Cache!Acquire(t)
  BY <1>0, <1>1, GoAnswered DEF Cache!Refer, Cache!Acquire
<1>2. CASE Cache!ReadLocal(t)
  <2>1. /\ pc[t] = "reading" /\ lookup[config[t]] # Unknown
        /\ Cache!Decode(t, lookup[config[t]]) /\ UNCHANGED store
    BY <1>2 DEF Cache!ReadLocal, Resolves
  <2>2. lookup[config[t]] = store[config[t]]
    <3>1. Locked!Key(t) = config[t]
      BY <2>1 DEF Locked!Key, Resolves
    <3>2. Locked!Inside(t) /\ pc[t] # "landed" /\ lookup[Locked!Key(t)] # Unknown
      BY <2>1, <3>1 DEF Locked!Inside
    <3>3. lookup[Locked!Key(t)] = store[Locked!Key(t)]
      BY <3>2, CacheAssumed, Locked!LocalIsStored DEF Locked!IInv
    <3>. QED BY <3>1, <3>3
  <2>. QED BY <2>1, <2>2, CacheTypes, DecodeAnswered
<1>3. CASE Cache!Fetch(t)
  <2>1. pc[t] = "reading" /\ store[call[t].key] \in Cache!Stored
    BY <1>3, CacheTypes DEF Cache!Fetch, Resolves
  <2>. QED BY <1>0, <1>3, <2>1, GoAnswered DEF Cache!Fetch
<1>4. CASE Cache!Fill(t)
  <2>1. pc[t] = "fetched" /\ Cache!Decode(t, call[t].value) /\ UNCHANGED store
    BY <1>4 DEF Cache!Fill
  <2>2. call[t].value = store[config[t]]
    BY <2>1 DEF Locked!IInv, Locked!Held, Locked!Holds, Locked!Key, Resolves
  <2>. QED BY <2>1, <2>2, CacheTypes, DecodeAnswered
<1>5. CASE \E x \in Values : Cache!Compute(t, x)
  BY <1>0, <1>5, GoAnswered DEF Cache!Compute, Cache!Stored
<1>6. CASE Cache!Land(t)
  <2>1. /\ pc[t] = "writing" /\ Cache!Go(t, "landed") /\ answer' = None /\ UNCHANGED call
        /\ store' = [store EXCEPT ![config[t]] = call[t].value]
    BY <1>6 DEF Cache!Land, Resolves
  <2>2. store[config[t]] = None
    BY <2>1 DEF Locked!IInv, Locked!Held, Locked!Holds, Locked!Key, Resolves
  <2>3. Stays
    BY <2>1, <2>2, CacheTypes, TrialEvaluationAssumption
  <2>. QED BY <2>1, <2>3, GoAnswered
<1>7. CASE Cache!Publish(t)
  <2>1. /\ pc[t] = "landed" /\ UNCHANGED store
        /\ \E a \in {Cache!Failed(t), Cache!Made(t, call[t].value)} : Cache!Leave(t, a)
    BY <1>7 DEF Cache!Publish, Cache!Reply
  <2>2. call[t].value \in Values /\ call[t].value = store[config[t]]
        /\ call[t].value \in Cache!Stored
    BY <2>1 DEF Locked!IInv, Locked!Held, Locked!Fits, Locked!Holds, Locked!Key, Resolves,
                Records
  <2>. QED BY <1>0, <2>1, <2>2, LeaveAnswered
<1>8. CASE Cache!Quit(t)
  <2>1. pc[t] # "idle" /\ Cache!Leave(t, Cache!Failed(t)) /\ UNCHANGED store
    BY <1>8 DEF Cache!Quit
  <2>2. None \in Cache!Stored
    BY DEF Cache!Stored
  <2>. QED BY <1>0, <2>1, <2>2, LeaveAnswered
<1>9. CASE Cache!Break(t)
  <2>1. /\ pc[t] # "idle" /\ Cache!Leave(t, Cache!Failed(t))
        /\ \/ UNCHANGED store
           \/ pc[t] = "writing" /\ store' = [store EXCEPT ![config[t]] = Garbled]
    BY <1>9 DEF Cache!Break, Resolves
  <2>2. pc[t] = "writing" => store[config[t]] = None
    BY DEF Locked!IInv, Locked!Held, Locked!Holds, Locked!Key, Resolves
  <2>3. Stays
    BY <1>0, <2>1, <2>2, CacheTypes, TrialEvaluationAssumption
  <2>4. None \in Cache!Stored
    BY DEF Cache!Stored
  <2>. QED BY <2>1, <2>3, <2>4, LeaveAnswered
<1>. QED BY <1>1, <1>2, <1>3, <1>4, <1>5, <1>6, <1>7, <1>8, <1>9 DEF Cache!Operate

-------------------------------------------------------------------------------
ExitRecords == [tag : Exits, value : Cache!Stored]

Shape ==
  /\ config \in [Trials -> Configs]
  /\ phase \in [Trials -> {"queued", "evaluating", "retrying", "ended"}]
  /\ exit \in [Trials -> ExitRecords \cup {None}]
  /\ timed \in [Trials -> BOOLEAN]
  /\ DOMAIN inflight = Trials /\ DOMAIN outcome = Trials
  /\ DOMAIN tries = Trials /\ DOMAIN prune = Trials

(* What an attempt returned, and a trial completed with, is in the store.    *)
Kept(t) ==
  /\ exit[t] # None /\ exit[t].tag = "value" =>
       exit[t].value \in Values /\ store[config[t]] = exit[t].value
  /\ outcome[t] # None /\ outcome[t].tag = "Completed" =>
       outcome[t].value \in Values /\ store[config[t]] = outcome[t].value

(* What has ended has left nothing at work.                                 *)
Left(t) ==
  /\ exit[t] # None \/ phase[t] # "evaluating" => pc[t] = "idle"
  /\ phase[t] = "ended" => exit[t] # None
  /\ pc[t] # "computing" => inflight[t] = {}
  /\ exit[t] # None /\ exit[t].tag = "interrupted" =>
       timed[t] /\ exit[t] = Exit("interrupted")
  /\ outcome[t] # None => phase[t] = "ended" /\ outcome[t] = Verdict(t)

IInv == Locked!IInv /\ Resolves /\ Shape /\ \A t \in Trials : Kept(t) /\ Left(t)

(* A step of one trial that leaves the others alone, replaces no stored      *)
(* value, and does right by itself.                                         *)
Same(u) ==
  /\ pc'[u] = pc[u] /\ call'[u] = call[u] /\ phase'[u] = phase[u] /\ exit'[u] = exit[u]
  /\ timed'[u] = timed[u] /\ inflight'[u] = inflight[u] /\ outcome'[u] = outcome[u]
  /\ prune'[u] = prune[u] /\ tries'[u] = tries[u]

Turn(t) ==
  /\ UNCHANGED config /\ Shape'
  /\ \A u \in Trials \ {t} : Same(u)
  /\ \A k \in Configs : store[k] \in Values => store'[k] = store[k]
  /\ pc'[t] # "idle" =>
       call'[t] \in Records /\ call'[t].op = "resolve" /\ call'[t].key = config[t]
  /\ Kept(t)' /\ Left(t)'

LEMMA TurnPreserves ==
  ASSUME IInv, NEW t \in Trials, Turn(t), Locked!IInv'
  PROVE  IInv'
<1>1. ASSUME NEW u \in Trials, u # t PROVE Kept(u)' /\ Left(u)'
  <2>1. Same(u) /\ Kept(u) /\ Left(u) /\ config'[u] = config[u] /\ config[u] \in Configs
    BY <1>1 DEF Turn, IInv, Shape
  <2>2. Kept(u)'
    BY <2>1 DEF Kept, Same, Turn
  <2>3. Verdict(u)' = Verdict(u)
    BY <2>1 DEF Verdict, Same
  <2>4. Left(u)'
    BY <2>1, <2>3 DEF Left, Same
  <2>. QED BY <2>2, <2>4
<1>2. Resolves'
  BY DEF Turn, Same, IInv, Resolves
<1>. QED BY <1>1, <1>2 DEF Turn, IInv

(* The attempt ends with the operation.                                     *)
LEMMA EndTurn ==
  ASSUME IInv, NEW t \in Trials, Answered(t), pc'[t] = "idle", NEW e \in ExitRecords, End(t, e),
         e.tag = "value" => e.value \in Values /\ store'[config[t]] = e.value,
         e.tag = "interrupted" => timed[t] /\ e = Exit("interrupted")
  PROVE  Turn(t)
<1>1. phase[t] = "evaluating" /\ outcome[t] = None
  BY DEF Answered, IInv, Left
<1>2. /\ exit' = [exit EXCEPT ![t] = e] /\ inflight' = [inflight EXCEPT ![t] = {}]
      /\ UNCHANGED <<config, phase, timed, tries, prune, outcome>>
  BY DEF End
<1>3. Shape' /\ exit'[t] = e /\ inflight'[t] = {} /\ \A u \in Trials \ {t} : Same(u)
  BY <1>2 DEF IInv, Shape, Answered, Same
<1>4. Kept(t)' /\ Left(t)'
  BY <1>1, <1>2, <1>3 DEF Kept, Left
<1>. QED BY <1>2, <1>3, <1>4 DEF Turn, Answered

(* The cache goes on, and nothing else.                                     *)
LEMMA GoTurn ==
  ASSUME IInv, NEW t \in Trials, Answered(t), pc'[t] # "idle", UNCHANGED trialVars,
         pc[t] = "computing" => inflight[t] = {}
  PROVE  Turn(t)
<1>1. UNCHANGED <<config, phase, exit, timed, tries, inflight, prune, outcome>>
  BY DEF trialVars
<1>2. Shape' /\ \A u \in Trials \ {t} : Same(u)
  BY <1>1 DEF IInv, Shape, Answered, Same
<1>3. exit[t] = None /\ phase[t] = "evaluating" /\ outcome[t] = None /\ inflight[t] = {}
  BY DEF Answered, IInv, Left
<1>4. Kept(t)' /\ Left(t)'
  BY <1>1, <1>3 DEF Kept, Left
<1>5. /\ call'[t] \in Records /\ call'[t].op = "resolve" /\ call'[t].key = config[t]
      /\ \A k \in Configs : store[k] \in Values => store'[k] = store[k]
  BY DEF Answered, IInv, Resolves
<1>. QED BY <1>1, <1>2, <1>4, <1>5 DEF Turn

-------------------------------------------------------------------------------
(* Every step is a step of the cache, or none of its, and takes its turn     *)

CacheStep == [Cache!Next]_cacheVars

LEMMA Operates ==
  ASSUME NEW t \in Trials, Cache!Operate(t)
  PROVE  CacheStep
BY DEF CacheStep, Cache!Next

LEMMA ExitTypes ==
  /\ \A tag \in Exits : Exit(tag) \in ExitRecords /\ Exit(tag) # None /\ Exit(tag).tag = tag
  /\ \A x \in Values : Returned(x) \in ExitRecords /\ Returned(x).value = x
                       /\ Returned(x).tag = "value"
<1>1. None \in Cache!Stored /\ Values \subseteq Cache!Stored
  BY DEF Cache!Stored
<1>2. \A tag \in Exits : Exit(tag) \in ExitRecords /\ Exit(tag).tag = tag
  BY <1>1 DEF Exit, ExitRecords
<1>3. \A x \in Values : Returned(x) \in ExitRecords /\ Returned(x).value = x
                        /\ Returned(x).tag = "value"
  BY <1>1 DEF Returned, ExitRecords, Exits
<1>4. None \notin ExitRecords
  BY TrialEvaluationAssumption DEF ExitRecords
<1>. QED BY <1>2, <1>3, <1>4

LEMMA ResolveTurn ==
  ASSUME IInv, NEW t \in Trials, Resolve(t), phase[t] # "ended",
         UNCHANGED <<config, timed, inflight, prune, outcome>>,
         tries' = tries \/ tries' = [tries EXCEPT ![t] = @ + 1]
  PROVE  CacheStep /\ Turn(t)
<1>1. config[t] \in Configs /\ "resolve" \in Cache!Ops /\ None \in Cache!Stored
  BY DEF IInv, Shape, Cache!Ops, Cache!Stored
<1>2. CacheStep
  BY <1>1 DEF Resolve, CacheStep, Cache!Next
<1>. DEFINE r == [op |-> "resolve", key |-> config[t], value |-> None]
<1>3. /\ pc[t] = "idle" /\ pc' = [pc EXCEPT ![t] = "entering"]
      /\ call' = [call EXCEPT ![t] = r] /\ UNCHANGED store
      /\ phase' = [phase EXCEPT ![t] = "evaluating"] /\ exit' = [exit EXCEPT ![t] = None]
  BY DEF Resolve, Cache!Call, Cache!Go
<1>4. r \in Records /\ r.op = "resolve" /\ r.key = config[t]
  BY <1>1 DEF Records
<1>. HIDE DEF r
<1>5. /\ pc'[t] = "entering" /\ call'[t] = r /\ phase'[t] = "evaluating" /\ exit'[t] = None
      /\ Shape' /\ \A u \in Trials \ {t} : Same(u)
  BY <1>3, CacheTypes DEF IInv, Shape, Same
<1>6. inflight[t] = {} /\ outcome[t] = None
  BY <1>3 DEF IInv, Left
<1>7. Kept(t)' /\ Left(t)'
  BY <1>5, <1>6 DEF Kept, Left
<1>. QED BY <1>2, <1>3, <1>4, <1>5, <1>7 DEF Turn

LEMMA PassTurn ==
  ASSUME IInv, NEW t \in Trials, Cache!Pass, UNCHANGED config, Shape',
         \A u \in Trials \ {t} :
           /\ phase'[u] = phase[u] /\ exit'[u] = exit[u] /\ timed'[u] = timed[u]
           /\ inflight'[u] = inflight[u] /\ outcome'[u] = outcome[u] /\ prune'[u] = prune[u]
           /\ tries'[u] = tries[u],
         Kept(t)', Left(t)'
  PROVE  CacheStep /\ Turn(t)
<1>1. CacheStep
  BY DEF CacheStep, Cache!Next
<1>. QED BY <1>1 DEF Turn, Same, Cache!Pass, IInv, Resolves

(* While a trial is at work nothing is recorded of it.                      *)
LEMMA AtWork ==
  ASSUME IInv, NEW t \in Trials, pc[t] # "idle"
  PROVE  exit[t] = None /\ phase[t] = "evaluating" /\ outcome[t] = None
BY DEF IInv, Left

LEMMA ReportsTurn ==
  ASSUME IInv, NEW t \in Trials, pc[t] = "computing", Cache!Pass,
         UNCHANGED <<config, phase, exit, timed, tries, outcome>>,
         \E i : inflight' = [inflight EXCEPT ![t] = i],
         prune' = prune \/ \E p : prune' = [prune EXCEPT ![t] = p]
  PROVE  CacheStep /\ Turn(t)
<1>1. Shape' /\ \A u \in Trials \ {t} :
        /\ phase'[u] = phase[u] /\ exit'[u] = exit[u] /\ timed'[u] = timed[u]
        /\ inflight'[u] = inflight[u] /\ outcome'[u] = outcome[u] /\ prune'[u] = prune[u]
        /\ tries'[u] = tries[u]
  BY DEF IInv, Shape
<1>2. Kept(t)' /\ Left(t)'
  BY AtWork DEF Kept, Left, Cache!Pass
<1>. QED BY <1>1, <1>2, PassTurn

LEMMA ReportTurn ==
  ASSUME IInv, NEW t \in Trials, NEW s, Report(t, s)
  PROVE  CacheStep /\ Turn(t)
BY ReportsTurn DEF Report

LEMMA RetainTurn ==
  ASSUME IInv, NEW t \in Trials, NEW r \in inflight[t], Retain(t, r) \/ Decide(t, r)
  PROVE  CacheStep /\ Turn(t)
<1>1. pc[t] = "computing"
  BY DEF IInv, Left
<1>2. CASE Retain(t, r)
  BY <1>1, <1>2, ReportsTurn DEF Retain
<1>3. CASE Decide(t, r)
  BY <1>1, <1>3, ReportsTurn DEF Decide
<1>. QED BY <1>2, <1>3

(* An operation of the cache that fails takes the attempt's end along.       *)
LEMMA FailTurn ==
  ASSUME IInv, NEW t \in Trials, Cache!Operate(t), Cache!Leave(t, Cache!Failed(t)),
         NEW tag \in Exits \ {"value"}, tag = "interrupted" => timed[t], End(t, Exit(tag))
  PROVE  CacheStep /\ Turn(t)
<1>1. CacheStep /\ Answered(t)
  BY Operates, OperateAnswered DEF IInv, Shape
<1>2. pc'[t] = "idle"
  BY LeaveEffect DEF IInv
<1>3. Exit(tag) \in ExitRecords /\ Exit(tag).tag = tag
  BY ExitTypes
<1>. QED BY <1>1, <1>2, <1>3, EndTurn

LEMMA QuitsAndBreaks ==
  ASSUME NEW t \in Trials, Cache!Quit(t) \/ Cache!Break(t)
  PROVE  Cache!Operate(t) /\ Cache!Leave(t, Cache!Failed(t))
BY DEF Cache!Operate, Cache!Quit, Cache!Break

LEMMA FailuresTurn ==
  ASSUME IInv, NEW t \in Trials, CacheFails(t) \/ ObjectiveFails(t)
  PROVE  CacheStep /\ Turn(t)
<1>1. \E tag \in {"error", "defect"} :
        (Cache!Quit(t) \/ Cache!Break(t)) /\ End(t, Exit(tag))
  BY DEF CacheFails, ObjectiveFails
<1>. QED BY <1>1, QuitsAndBreaks, FailTurn DEF Exits

LEMMA PublishFailsTurn ==
  ASSUME IInv, NEW t \in Trials, NEW r \in inflight[t], PublishFails(t, r)
  PROVE  CacheStep /\ Turn(t)
<1>1. pc[t] = "computing"
  BY DEF IInv, Left
<1>2. CASE Cache!Pass
  <2>1. UNCHANGED <<config, phase, exit, timed, tries, prune, outcome>>
        /\ \E i : inflight' = [inflight EXCEPT ![t] = i]
    BY <1>1, <1>2 DEF PublishFails, Cache!Pass, Cache!Quit, Cache!Leave, Cache!Go, IInv, Shape,
                      End, Locked!IInv, Locked!TypeOK
  <2>. QED BY <1>1, <1>2, <2>1, ReportsTurn
<1>3. CASE Cache!Quit(t) /\ End(t, Exit("storage"))
  BY <1>3, QuitsAndBreaks, FailTurn DEF Exits
<1>. QED BY <1>2, <1>3 DEF PublishFails

LEMMA ToRetryIdle ==
  ASSUME IInv, NEW t \in Trials, BetweenAttempts(t)
  PROVE  pc[t] = "idle" /\ inflight[t] = {} /\ outcome[t] = None /\ phase[t] # "ended"
<1>1. ToRetry(t) => exit[t] # None
  BY ExitTypes DEF ToRetry, Exits
<1>2. pc[t] = "idle" /\ phase[t] # "ended"
  BY <1>1 DEF BetweenAttempts, IInv, Left
<1>. QED BY <1>2 DEF IInv, Left

LEMMA AnnounceRetryTurn ==
  ASSUME IInv, NEW t \in Trials, AnnounceRetry(t)
  PROVE  CacheStep /\ Turn(t)
<1>1. /\ phase' = [phase EXCEPT ![t] = "retrying"] /\ Cache!Pass
      /\ UNCHANGED <<config, timed, exit, tries, inflight, prune, outcome>>
  BY DEF AnnounceRetry, reportVars
<1>2. pc[t] = "idle" /\ inflight[t] = {} /\ outcome[t] = None
  BY ToRetryIdle DEF AnnounceRetry, BetweenAttempts
<1>3. Shape' /\ \A u \in Trials \ {t} : phase'[u] = phase[u]
  BY <1>1 DEF IInv, Shape
<1>4. phase'[t] = "retrying"
  BY <1>1 DEF IInv, Shape
<1>5. Kept(t)' /\ Left(t)'
  BY <1>1, <1>2, <1>4 DEF IInv, Kept, Left, Cache!Pass
<1>. QED BY <1>1, <1>3, <1>5, PassTurn

LEMMA RetryCutTurn ==
  ASSUME IInv, NEW t \in Trials, NEW tag \in {"storage", "interrupted"},
         RetryCut(t, Exit(tag)), tag = "interrupted" => timed[t]
  PROVE  CacheStep /\ Turn(t)
<1>1. /\ phase' = [phase EXCEPT ![t] = "evaluating"] /\ exit' = [exit EXCEPT ![t] = Exit(tag)]
      /\ Cache!Pass /\ UNCHANGED <<config, timed, tries, inflight, prune, outcome>>
  BY DEF RetryCut, reportVars
<1>2. pc[t] = "idle" /\ inflight[t] = {} /\ outcome[t] = None
  BY ToRetryIdle DEF RetryCut
<1>3. Exit(tag) \in ExitRecords /\ Exit(tag).tag = tag
  BY ExitTypes DEF Exits
<1>4. /\ Shape' /\ exit'[t] = Exit(tag) /\ phase'[t] = "evaluating"
      /\ \A u \in Trials \ {t} : phase'[u] = phase[u] /\ exit'[u] = exit[u]
  BY <1>1, <1>3 DEF IInv, Shape
<1>5. Kept(t)' /\ Left(t)'
  BY <1>1, <1>2, <1>3, <1>4 DEF Kept, Left, Cache!Pass
<1>. QED BY <1>1, <1>4, <1>5, PassTurn

LEMMA DeadlineTurn ==
  ASSUME IInv, NEW t \in Trials, Deadline(t)
  PROVE  CacheStep /\ Turn(t)
<1>1. /\ timed' = [timed EXCEPT ![t] = TRUE] /\ Cache!Pass
      /\ UNCHANGED <<config, phase, exit, tries, inflight, prune, outcome>>
  BY DEF Deadline, reportVars
<1>2. Shape' /\ timed'[t] = TRUE /\ \A u \in Trials \ {t} : timed'[u] = timed[u]
  BY <1>1 DEF IInv, Shape
<1>3. Verdict(t)' = Verdict(t)
  BY <1>1 DEF Verdict
<1>4. Kept(t)' /\ Left(t)'
  BY <1>1, <1>2, <1>3 DEF IInv, Kept, Left, Cache!Pass
<1>. QED BY <1>1, <1>2, <1>4, PassTurn

LEMMA RecordTurn ==
  ASSUME IInv, NEW t \in Trials, Record(t)
  PROVE  CacheStep /\ Turn(t)
<1>1. /\ phase' = [phase EXCEPT ![t] = "ended"] /\ outcome' = [outcome EXCEPT ![t] = Verdict(t)]
      /\ exit[t] # None /\ Cache!Pass
      /\ UNCHANGED <<config, timed, exit, tries, inflight, prune>>
  BY DEF Record, reportVars
<1>2. /\ Shape' /\ phase'[t] = "ended" /\ outcome'[t] = Verdict(t)
      /\ \A u \in Trials \ {t} : phase'[u] = phase[u] /\ outcome'[u] = outcome[u]
  BY <1>1 DEF IInv, Shape
<1>3. Verdict(t)' = Verdict(t)
  BY <1>1 DEF Verdict
<1>4. Verdict(t).tag = "Completed" => exit[t].tag = "value" /\ Verdict(t).value = exit[t].value
  <2>1. exit[t].tag \in Exits
    BY <1>1 DEF IInv, Shape, ExitRecords
  <2>. QED BY <2>1 DEF Verdict, Exits, Completed, Pruned, Failed, Cancelled, Lost
<1>5. Kept(t)' /\ Left(t)'
  BY <1>1, <1>2, <1>3, <1>4 DEF IInv, Kept, Left, Cache!Pass
<1>. QED BY <1>1, <1>2, <1>5, PassTurn

LEMMA UseCacheTurn ==
  ASSUME IInv, NEW t \in Trials, UseCache(t)
  PROVE  CacheStep /\ Turn(t)
<1>1. Cache!Operate(t) /\ pc[t] # "computing"
  BY DEF UseCache, Cache!Operate, Cache!Refer, Cache!Acquire, Cache!ReadLocal, Cache!Fetch,
         Cache!Fill, Cache!Land, Cache!Publish
<1>2. CacheStep /\ Answered(t)
  BY <1>1, Operates, OperateAnswered DEF IInv, Shape
<1>3. CASE answer' = None
  <2>1. UNCHANGED trialVars
    BY <1>3 DEF UseCache
  <2>2. pc'[t] # "idle"
    BY <1>2, <1>3 DEF Answered
  <2>. QED BY <1>1, <1>2, <2>1, <2>2, GoTurn
<1>4. CASE answer' # None /\ answer'.tag # "failed"
  <2>1. /\ pc'[t] = "idle" /\ answer'.value \in Values
        /\ store'[config[t]] = answer'.value
    BY <1>2, <1>4 DEF Answered
  <2>2. End(t, Returned(answer'.value))
    BY <1>4 DEF UseCache
  <2>3. /\ Returned(answer'.value) \in ExitRecords
        /\ Returned(answer'.value).value = answer'.value
        /\ Returned(answer'.value).tag = "value"
    BY <2>1, ExitTypes
  <2>. QED BY <1>2, <2>1, <2>2, <2>3, EndTurn
<1>5. CASE answer' # None /\ answer'.tag = "failed"
  <2>1. pc'[t] = "idle" /\ End(t, Exit("error"))
    BY <1>2, <1>5 DEF Answered, UseCache
  <2>2. Exit("error") \in ExitRecords /\ Exit("error").tag = "error"
    BY ExitTypes DEF Exits
  <2>. QED BY <1>2, <2>1, <2>2, EndTurn
<1>. QED BY <1>3, <1>4, <1>5

LEMMA ObjectiveReturnsTurn ==
  ASSUME IInv, NEW t \in Trials, NEW x \in Values, ObjectiveReturns(t, x)
  PROVE  CacheStep /\ Turn(t)
<1>1. Cache!Operate(t) /\ inflight[t] = {} /\ UNCHANGED trialVars /\ answer' = None
  BY DEF ObjectiveReturns, Cache!Operate, Cache!Compute
<1>2. CacheStep /\ Answered(t)
  BY <1>1, Operates, OperateAnswered DEF IInv, Shape
<1>3. pc'[t] # "idle"
  BY <1>1, <1>2 DEF Answered
<1>. QED BY <1>1, <1>2, <1>3, GoTurn

LEMMA InterruptedTurn ==
  ASSUME IInv, NEW t \in Trials, Interrupted(t)
  PROVE  CacheStep /\ Turn(t)
<1>1. timed[t]
  BY DEF Interrupted
<1>2. CASE RetryCut(t, Exit("interrupted"))
  BY <1>1, <1>2, RetryCutTurn
<1>3. ASSUME Cache!Quit(t) \/ Cache!Break(t), NEW tag \in {"interrupted", "defect"},
             End(t, Exit(tag))
      PROVE  CacheStep /\ Turn(t)
  BY <1>1, <1>3, QuitsAndBreaks, FailTurn DEF Exits
<1>4. CASE /\ Cache!ReadLocal(t) \/ Cache!Fill(t) \/ Cache!Publish(t)
           /\ answer' = Cache!Failed(t) /\ End(t, Exit("interrupted"))
  <2>1. CacheStep /\ Answered(t)
    BY <1>4, Operates, OperateAnswered DEF IInv, Shape, Cache!Operate
  <2>2. None \in Cache!Stored /\ Cache!Failed(t) # None
    BY AnswerTypes DEF Cache!Stored
  <2>3. pc'[t] = "idle"
    BY <1>4, <2>1, <2>2 DEF Answered
  <2>4. Exit("interrupted") \in ExitRecords /\ Exit("interrupted").tag = "interrupted"
    BY ExitTypes DEF Exits
  <2>. QED BY <1>1, <1>4, <2>1, <2>3, <2>4, EndTurn
<1>. QED BY <1>2, <1>3, <1>4 DEF Interrupted

LEMMA TrialTurn ==
  ASSUME IInv, NEW t \in Trials, Trial(t)
  PROVE  CacheStep /\ Turn(t)
<1>1. CASE Begin(t)
  BY <1>1, ResolveTurn DEF Begin, reportVars
<1>2. CASE Retry(t)
  BY <1>2, ResolveTurn DEF Retry, reportVars
<1>3. CASE RetryCut(t, Exit("storage"))
  BY <1>3, RetryCutTurn
<1>. QED
  BY <1>1, <1>2, <1>3, UseCacheTurn, FailuresTurn, ObjectiveReturnsTurn, ReportTurn, RetainTurn,
     PublishFailsTurn, AnnounceRetryTurn, DeadlineTurn, InterruptedTurn, RecordTurn DEF Trial

LEMMA NextPreserves ==
  ASSUME IInv, [Next]_vars
  PROVE  IInv' /\ CacheStep
<1>1. ASSUME NEW t \in Trials, Trial(t) PROVE IInv' /\ CacheStep
  <2>1. CacheStep /\ Turn(t)
    BY <1>1, TrialTurn
  <2>2. Locked!IInv'
    BY <2>1, CacheKept DEF CacheStep, IInv
  <2>. QED BY <2>1, <2>2, TurnPreserves
<1>2. ASSUME UNCHANGED trialVars, UNCHANGED <<store, pc, call>>, CacheStep PROVE IInv' /\ CacheStep
  <2>1. Locked!IInv'
    BY <1>2, CacheKept DEF CacheStep, IInv
  <2>2. UNCHANGED <<config, phase, exit, timed, tries, inflight, prune, outcome>>
    BY <1>2 DEF trialVars
  <2>3. Resolves' /\ Shape'
    BY <1>2, <2>2 DEF IInv, Resolves, Shape
  <2>4. \A t \in Trials : Kept(t)' /\ Left(t)'
    BY <1>2, <2>2 DEF IInv, Kept, Left, Verdict
  <2>. QED BY <1>2, <2>1, <2>3, <2>4 DEF IInv
<1>3. CASE Evict
  BY <1>2, <1>3 DEF Evict, CacheStep, Cache!Next, Cache!Evict
<1>4. CASE UNCHANGED vars
  BY <1>2, <1>4 DEF vars, cacheVars, CacheStep
<1>. QED BY <1>1, <1>3, <1>4 DEF Next

LEMMA InitHolds ==
  ASSUME Init
  PROVE  IInv
<1>1. Locked!Init
  BY DEF Init, Cache!Init, Locked!Init
<1>2. Locked!IInv
  BY <1>1, CacheAssumed, Locked!InitHolds
<1>3. Resolves /\ Shape /\ \A t \in Trials : Kept(t) /\ Left(t)
  BY DEF Init, Cache!Init, Resolves, Shape, Kept, Left
<1>. QED BY <1>2, <1>3 DEF IInv

LEMMA InvOneValue ==
  ASSUME IInv
  PROVE  OneValuePerConfig
BY DEF IInv, Kept, OneValuePerConfig

LEMMA InvNothingLeft ==
  ASSUME IInv
  PROVE  NothingLeftBehind
<1>. SUFFICES ASSUME NEW t \in Trials, outcome[t] # None
              PROVE  /\ pc[t] = "idle" /\ sem[t] = None /\ inflight[t] = {}
                     /\ outcome[t] = Cancelled <=> exit[t] = Exit("interrupted")
                     /\ outcome[t] = Cancelled => timed[t]
  BY DEF NothingLeftBehind
<1>1. /\ phase[t] = "ended" /\ exit[t] # None /\ outcome[t] = Verdict(t) /\ pc[t] = "idle"
      /\ inflight[t] = {} 
      /\ exit[t].tag = "interrupted" => timed[t] /\ exit[t] = Exit("interrupted")
  BY DEF IInv, Left
<1>2. sem[t] = None
  BY <1>1, CacheTypes DEF IInv
<1>3. outcome[t] = Cancelled <=> exit[t].tag = "interrupted"
  BY <1>1 DEF Verdict, Cancelled, Failed, Lost, Pruned, Completed
<1>4. Exit("interrupted").tag = "interrupted"
  BY DEF Exit
<1>. QED BY <1>1, <1>2, <1>3, <1>4

-------------------------------------------------------------------------------
(* Reports and retries                                                      *)

(* The decisions an event on its way has told so far.                       *)
Event(r) == IF r.retained THEN <<r.prune>> ELSE <<>>

(* A step is reported once: until its event is retained nothing is told of   *)
(* it, and then what its report, still in flight, was decided.              *)
Told(t) ==
  /\ reports[t] \subseteq Steps[t] /\ DOMAIN told[t] = Steps[t]
  /\ \A s \in Steps[t] :
       told[t][s] = <<>> \/ (s \in reports[t] /\ \E d \in BOOLEAN : told[t][s] = <<d>>)
  /\ \A r \in inflight[t] :
       /\ r.step \in reports[t]
       /\ told[t][r.step] = Event(r)
  /\ \A r, q \in inflight[t] : r.step = q.step => r = q
  /\ prune[t] # None => prune[t] \in Steps[t] /\ told[t][prune[t]] = <<TRUE>>

ToldAll == DOMAIN told = Trials /\ DOMAIN reports = Trials /\ \A t \in Trials : Told(t)

LEMMA ToldStays ==
  ASSUME ToldAll, UNCHANGED <<told, reports, prune>>,
         \A t \in Trials : inflight'[t] \subseteq inflight[t]
  PROVE  ToldAll'
<1>. SUFFICES ASSUME NEW t \in Trials PROVE Told(t)'
  BY DEF ToldAll
<1>1. Told(t) /\ inflight'[t] \subseteq inflight[t]
  BY DEF ToldAll
<1>. QED BY <1>1 DEF Told

LEMMA ToldOne ==
  ASSUME ToldAll, NEW t \in Trials, Told(t)', DOMAIN told' = Trials, DOMAIN reports' = Trials,
         \A u \in Trials \ {t} : /\ told'[u] = told[u] /\ reports'[u] = reports[u]
                                 /\ inflight'[u] = inflight[u] /\ prune'[u] = prune[u]
  PROVE  ToldAll'
<1>. SUFFICES ASSUME NEW u \in Trials, u # t PROVE Told(u)'
  BY DEF ToldAll
<1>1. /\ told'[u] = told[u] /\ reports'[u] = reports[u] /\ inflight'[u] = inflight[u]
      /\ prune'[u] = prune[u] /\ Told(u)
  BY DEF ToldAll
<1>. QED BY <1>1 DEF Told

LEMMA ReportTold ==
  ASSUME IInv, ToldAll, NEW t \in Trials, NEW s \in Steps[t], Report(t, s)
  PROVE  ToldAll'
<1>. DEFINE r == Unsent(s)
<1>1. /\ reports' = [reports EXCEPT ![t] = @ \cup {s}] /\ s \notin reports[t]
      /\ inflight' = [inflight EXCEPT ![t] = @ \cup {r}]
      /\ UNCHANGED <<prune, told>>
  BY DEF Report
<1>2. r.step = s /\ Event(r) = <<>>
  BY DEF Unsent, Event
<1>. HIDE DEF r
<1>3. /\ reports'[t] = reports[t] \cup {s} /\ inflight'[t] = inflight[t] \cup {r}
      /\ \A u \in Trials \ {t} : reports'[u] = reports[u] /\ inflight'[u] = inflight[u]
      /\ Told(t) /\ DOMAIN reports' = Trials
  BY <1>1 DEF IInv, Shape, ToldAll
<1>4. told[t][s] = <<>> /\ \A q \in inflight[t] : q.step # s
  BY <1>1, <1>3 DEF Told
<1>5. Told(t)'
  <2>1. \A q \in inflight'[t] :
          /\ q.step \in reports'[t]
          /\ told'[t][q.step] = Event(q)
    BY <1>1, <1>2, <1>3, <1>4 DEF Told
  <2>2. \A p, q \in inflight'[t] : p.step = q.step => p = q
    BY <1>2, <1>3, <1>4 DEF Told
  <2>. QED BY <1>1, <1>3, <2>1, <2>2 DEF Told
<1>. QED BY <1>1, <1>3, <1>5, ToldOne DEF ToldAll

LEMMA RetainTold ==
  ASSUME IInv, ToldAll, NEW t \in Trials, NEW r \in inflight[t], Retain(t, r)
  PROVE  ToldAll'
<1>1. PICK d \in BOOLEAN :
        /\ inflight' = [inflight EXCEPT ![t] = (@ \ {r}) \cup {Sent(r.step, d)}]
        /\ told' = [told EXCEPT ![t][r.step] = Append(@, d)]
        /\ UNCHANGED <<reports, prune>> /\ ~r.retained
  BY DEF Retain
<1>. DEFINE s == r.step
            n == Sent(s, d)
<1>2. n.step = s /\ Event(n) = <<d>>
  BY DEF Sent, Event
<1>3. Told(t) /\ s \in reports[t] /\ s \in Steps[t] /\ told[t][s] = <<>>
  BY <1>1 DEF ToldAll, Told, Event
<1>. HIDE DEF s, n
<1>4. /\ inflight'[t] = (inflight[t] \ {r}) \cup {n}
      /\ DOMAIN told' = Trials /\ DOMAIN told'[t] = Steps[t]
      /\ told'[t][s] = Append(told[t][s], d)
      /\ \A z \in Steps[t] : z # s => told'[t][z] = told[t][z]
      /\ \A u \in Trials \ {t} : told'[u] = told[u] /\ inflight'[u] = inflight[u]
  BY <1>1, <1>3 DEF IInv, Shape, ToldAll, Told, s, n
<1>5. told'[t][s] = <<d>>
  BY <1>3, <1>4
<1>6. \A q \in inflight[t] \ {r} : q.step # s /\ q.step \in Steps[t]
  BY <1>3 DEF Told, s
<1>7. Told(t)'
  <2>1. \A q \in inflight'[t] :
          /\ q.step \in reports'[t]
          /\ told'[t][q.step] = Event(q)
    BY <1>1, <1>2, <1>3, <1>4, <1>5, <1>6 DEF Told
  <2>2. \A p, q \in inflight'[t] : p.step = q.step => p = q
    BY <1>2, <1>3, <1>4, <1>6 DEF Told
  <2>3. prune[t] # None => prune[t] # s
    <3>1. Len(<<TRUE>>) = 1 /\ Len(<< >>) = 0
      OBVIOUS
    <3>2. told[t][s] # <<TRUE>>
      BY <1>3, <3>1
    <3>. QED BY <1>3, <3>2 DEF Told
  <2>4. \A z \in Steps[t] : told'[t][z] = <<>> \/ (z \in reports[t] /\ \E e \in BOOLEAN : told'[t][z] = <<e>>)
    BY <1>3, <1>4, <1>5 DEF Told
  <2>. QED BY <1>1, <1>3, <1>4, <2>1, <2>2, <2>3, <2>4 DEF Told
<1>. QED BY <1>1, <1>4, <1>7, ToldOne DEF ToldAll

LEMMA DecideTold ==
  ASSUME IInv, ToldAll, NEW t \in Trials, NEW r \in inflight[t], Decide(t, r)
  PROVE  ToldAll'
<1>1. /\ inflight' = [inflight EXCEPT ![t] = @ \ {r}] /\ r.retained
      /\ prune' = [prune EXCEPT ![t] = IF r.prune /\ @ = None THEN r.step ELSE @]
      /\ UNCHANGED <<reports, told>>
  BY DEF Decide
<1>2. /\ inflight'[t] = inflight[t] \ {r}
      /\ \A u \in Trials \ {t} : prune'[u] = prune[u] /\ inflight'[u] = inflight[u]
      /\ prune'[t] = prune[t] \/ (r.prune /\ prune'[t] = r.step)
      /\ Told(t)
  BY <1>1 DEF IInv, Shape, ToldAll
<1>3. told[t][r.step] = <<r.prune>> /\ r.step \in Steps[t]
  BY <1>1, <1>2 DEF Told, Event
<1>4. r.prune => told[t][r.step] = <<TRUE>>
  <2>1. told[t][r.step] = <<>> \/ \E d \in BOOLEAN : told[t][r.step] = <<d>>
    BY <1>2, <1>3 DEF Told
  <2>2. r.prune \in BOOLEAN
    BY <1>3, <2>1
  <2>. QED BY <1>3, <2>2
<1>5. Told(t)'
  BY <1>1, <1>2, <1>3, <1>4 DEF Told
<1>. QED BY <1>1, <1>2, <1>5, ToldOne DEF ToldAll

(* All other steps add no report and tell nothing.                          *)
LEMMA EndTold ==
  ASSUME IInv, ToldAll, NEW t \in Trials, NEW e, End(t, e)
  PROVE  ToldAll'
<1>1. /\ UNCHANGED <<told, reports, prune>>
      /\ \A u \in Trials : inflight'[u] \subseteq inflight[u]
  BY DEF End, IInv, Shape
<1>. QED BY <1>1, ToldStays

LEMMA SilentTold ==
  ASSUME ToldAll, UNCHANGED <<told, reports, prune, inflight>>
  PROVE  ToldAll'
BY ToldStays

LEMMA TrialTold ==
  ASSUME IInv, ToldAll, NEW t \in Trials, Trial(t)
  PROVE  ToldAll'
<1>1. CASE \E e : End(t, e)
  BY <1>1, EndTold
<1>2. CASE UNCHANGED trialVars
  BY <1>2, SilentTold DEF trialVars
<1>3. CASE \E s \in Steps[t] : Report(t, s)
  BY <1>3, ReportTold
<1>4. CASE \E r \in inflight[t] : Retain(t, r) \/ Decide(t, r)
  BY <1>4, RetainTold, DecideTold
<1>5. CASE \/ Begin(t) \/ AnnounceRetry(t) \/ Retry(t) \/ Deadline(t) \/ Record(t)
           \/ \E e : RetryCut(t, e)
  BY <1>5, SilentTold DEF Begin, AnnounceRetry, Retry, Deadline, Record, RetryCut, reportVars
<1>6. ASSUME NEW r \in inflight[t], inflight' = [inflight EXCEPT ![t] = @ \ {r}],
             UNCHANGED <<told, reports, prune>>
      PROVE  ToldAll'
  <2>1. \A u \in Trials : inflight'[u] \subseteq inflight[u]
    BY <1>6 DEF IInv, Shape
  <2>. QED BY <1>6, <2>1, ToldStays
<1>7. CASE UseCache(t)
  BY <1>1, <1>2, <1>7 DEF UseCache
<1>8. CASE \E x \in Values : ObjectiveReturns(t, x)
  BY <1>2, <1>8 DEF ObjectiveReturns
<1>9. CASE CacheFails(t) \/ ObjectiveFails(t)
  BY <1>1, <1>9 DEF CacheFails, ObjectiveFails
<1>10. CASE Interrupted(t)
  BY <1>1, <1>5, <1>10 DEF Interrupted
<1>11. CASE \E r \in inflight[t] : PublishFails(t, r)
  BY <1>1, <1>6, <1>11 DEF PublishFails
<1>. QED
  BY <1>3, <1>4, <1>5, <1>7, <1>8, <1>9, <1>10, <1>11 DEF Trial

(* The retained retries are those that were begun, and the one a trial is    *)
(* about to begin or was cut short before.                                  *)
Counted(t) ==
  /\ tries[t] \in Nat /\ retried[t] \in Seq(Nat)
  /\ \A i \in DOMAIN retried[t] : retried[t][i] = i
  /\ \/ phase[t] # "retrying" /\ Len(retried[t]) = tries[t]
     \/ /\ Len(retried[t]) = tries[t] + 1
        /\ \/ phase[t] = "retrying"
           \/ exit[t] # None /\ exit[t].tag \in {"interrupted", "storage"}
  /\ phase[t] = "queued" => exit[t] = None

CountedAll == DOMAIN retried = Trials /\ \A t \in Trials : Counted(t)

LEMMA CountedOne ==
  ASSUME CountedAll, NEW t \in Trials, Turn(t), Counted(t)', DOMAIN retried' = Trials,
         \A u \in Trials \ {t} : retried'[u] = retried[u]
  PROVE  CountedAll'
<1>. SUFFICES ASSUME NEW u \in Trials, u # t PROVE Counted(u)'
  BY DEF CountedAll
<1>1. Same(u) /\ retried'[u] = retried[u] /\ Counted(u)
  BY DEF CountedAll, Turn
<1>. QED BY <1>1 DEF Counted, Same

LEMMA EndCounted ==
  ASSUME IInv, CountedAll, NEW t \in Trials, pc[t] # "idle", Turn(t), NEW e, End(t, e)
  PROVE  CountedAll'
<1>1. exit[t] = None /\ phase[t] = "evaluating" /\ Counted(t)
  BY AtWork DEF CountedAll
<1>2. UNCHANGED <<phase, tries, retried>>
  BY DEF End
<1>3. Counted(t)'
  BY <1>1, <1>2 DEF Counted
<1>. QED BY <1>2, <1>3, CountedOne DEF CountedAll

LEMMA SilentCounted ==
  ASSUME CountedAll, NEW t \in Trials, Turn(t), UNCHANGED <<phase, exit, tries, retried>>
  PROVE  CountedAll'
<1>1. Counted(t)'
  BY DEF CountedAll, Counted
<1>. QED BY <1>1, CountedOne DEF CountedAll

LEMMA BeginCounted ==
  ASSUME IInv, CountedAll, NEW t \in Trials, Turn(t), Begin(t) \/ Retry(t)
  PROVE  CountedAll'
<1>1. /\ phase'[t] = "evaluating" /\ exit'[t] = None /\ UNCHANGED retried
      /\ \/ phase[t] = "queued" /\ UNCHANGED tries
         \/ phase[t] = "retrying" /\ tries'[t] = tries[t] + 1
  BY DEF Begin, Retry, Resolve, IInv, Shape
<1>2. Counted(t)'
  BY <1>1 DEF CountedAll, Counted
<1>. QED BY <1>1, <1>2, CountedOne DEF CountedAll

LEMMA AnnounceCounted ==
  ASSUME IInv, CountedAll, NEW t \in Trials, Turn(t), AnnounceRetry(t)
  PROVE  CountedAll'
<1>. DEFINE n == tries[t]
<1>1. /\ phase[t] = "evaluating" /\ exit[t] = Exit("error")
      /\ phase'[t] = "retrying" /\ UNCHANGED <<exit, tries>>
      /\ retried' = [retried EXCEPT ![t] = Append(@, n + 1)]
  BY DEF AnnounceRetry, ToRetry, IInv, Shape
<1>2. exit[t].tag = "error"
  BY <1>1, ExitTypes DEF Exits
<1>3. Counted(t) /\ n \in Nat /\ retried[t] \in Seq(Nat) /\ Len(retried[t]) = n
  BY <1>1, <1>2 DEF CountedAll, Counted
<1>4. /\ retried'[t] = Append(retried[t], n + 1) /\ DOMAIN retried' = Trials
      /\ \A u \in Trials \ {t} : retried'[u] = retried[u]
  BY <1>1 DEF CountedAll
<1>5. /\ retried'[t] \in Seq(Nat) /\ Len(retried'[t]) = n + 1
      /\ \A i \in DOMAIN retried'[t] : retried'[t][i] = i
  BY <1>3, <1>4 DEF Counted
<1>6. Counted(t)'
  BY <1>1, <1>3, <1>5 DEF Counted
<1>. QED BY <1>4, <1>6, CountedOne

LEMMA CutCounted ==
  ASSUME IInv, CountedAll, NEW t \in Trials, Turn(t), NEW tag \in {"storage", "interrupted"},
         RetryCut(t, Exit(tag))
  PROVE  CountedAll'
<1>1. /\ phase'[t] = "evaluating" /\ exit'[t] = Exit(tag) /\ UNCHANGED <<tries, retried>>
  BY DEF RetryCut, IInv, Shape
<1>2. Exit(tag) # None /\ Exit(tag).tag = tag
  BY ExitTypes DEF Exits
<1>3. Counted(t)'
  BY <1>1, <1>2 DEF CountedAll, Counted
<1>. QED BY <1>1, <1>3, CountedOne DEF CountedAll

LEMMA RecordCounted ==
  ASSUME IInv, CountedAll, NEW t \in Trials, Turn(t), Record(t)
  PROVE  CountedAll'
<1>1. phase[t] = "evaluating" /\ phase'[t] = "ended" /\ UNCHANGED <<exit, tries, retried>>
  BY DEF Record, IInv, Shape
<1>2. Counted(t)'
  BY <1>1 DEF CountedAll, Counted
<1>. QED BY <1>1, <1>2, CountedOne DEF CountedAll

LEMMA EndsAtWork ==
  ASSUME NEW t \in Trials,
         \/ UseCache(t) \/ CacheFails(t) \/ ObjectiveFails(t)
         \/ Cache!Quit(t) \/ Cache!Break(t)
         \/ Cache!ReadLocal(t) \/ Cache!Fill(t) \/ Cache!Publish(t)
  PROVE  pc[t] # "idle"
BY DEF UseCache, CacheFails, ObjectiveFails, Cache!Quit, Cache!Break, Cache!Refer,
       Cache!Acquire, Cache!ReadLocal, Cache!Fetch, Cache!Fill, Cache!Land, Cache!Publish

LEMMA TrialCounted ==
  ASSUME IInv, CountedAll, NEW t \in Trials, Turn(t), Trial(t)
  PROVE  CountedAll'
<1>1. CASE pc[t] # "idle" /\ \E e : End(t, e)
  BY <1>1, EndCounted
<1>2. CASE UNCHANGED <<phase, exit, tries, retried>>
  BY <1>2, SilentCounted
<1>3. CASE UseCache(t) \/ CacheFails(t) \/ ObjectiveFails(t)
  <2>1. UNCHANGED trialVars \/ \E e : End(t, e)
    BY <1>3 DEF UseCache, CacheFails, ObjectiveFails
  <2>. QED BY <1>1, <1>2, <1>3, <2>1, EndsAtWork DEF trialVars
<1>4. CASE \/ \E x \in Values : ObjectiveReturns(t, x)
           \/ \E s \in Steps[t] : Report(t, s)
           \/ \E r \in inflight[t] : Retain(t, r) \/ Decide(t, r)
           \/ Deadline(t)
  BY <1>2, <1>4 DEF ObjectiveReturns, Report, Retain, Decide, Deadline, trialVars
<1>5. CASE \E r \in inflight[t] : PublishFails(t, r)
  BY <1>1, <1>2, <1>5, EndsAtWork DEF PublishFails
<1>6. CASE Interrupted(t)
  BY <1>1, <1>6, EndsAtWork, CutCounted DEF Interrupted
<1>. QED
  BY <1>3, <1>4, <1>5, <1>6, BeginCounted, AnnounceCounted, CutCounted, RecordCounted DEF Trial

ReportsInv == ToldAll /\ CountedAll

LEMMA ReportsInit ==
  ASSUME Init
  PROVE  ReportsInv
<1>1. ToldAll
  BY DEF Init, ToldAll, Told
<1>2. CountedAll
  BY DEF Init, CountedAll, Counted
<1>. QED BY <1>1, <1>2 DEF ReportsInv

LEMMA ReportsPreserved ==
  ASSUME IInv, ReportsInv, [Next]_vars
  PROVE  ReportsInv'
<1>1. ASSUME NEW t \in Trials, Trial(t) PROVE ReportsInv'
  BY <1>1, TrialTurn, TrialTold, TrialCounted DEF ReportsInv
<1>2. ASSUME UNCHANGED trialVars PROVE ReportsInv'
  <2>1. ToldAll'
    BY <1>2, SilentTold DEF trialVars, ReportsInv
  <2>2. CountedAll'
    BY <1>2 DEF trialVars, ReportsInv, CountedAll, Counted
  <2>. QED BY <2>1, <2>2 DEF ReportsInv
<1>. QED BY <1>1, <1>2 DEF Next, Evict, vars

LEMMA InvReports ==
  ASSUME IInv, ReportsInv
  PROVE  ReportsTruthful
<1>. SUFFICES ASSUME NEW t \in Trials
              PROVE  /\ \A s \in Steps[t] : Len(told[t][s]) <= 1
                     /\ prune[t] # None => TRUE \in Range(told[t][prune[t]])
                     /\ \A i \in DOMAIN retried[t] : retried[t][i] = i
                     /\ Len(retried[t]) \in {tries[t], tries[t] + 1}
                     /\ outcome[t] # None =>
                          /\ outcome[t].tag = "Completed" => Len(retried[t]) = outcome[t].retries
                          /\ outcome[t].tag \in {"Completed", "Failed"} => prune[t] = None
  BY DEF ReportsTruthful
<1>1. Told(t) /\ Counted(t)
  BY DEF ReportsInv, ToldAll, CountedAll
<1>2. \A d : Len(<<d>>) = 1 /\ d \in Range(<<d>>)
  BY DEF Range
<1>3. Len(<< >>) = 0
  OBVIOUS
<1>4. ASSUME NEW s \in Steps[t] PROVE Len(told[t][s]) <= 1
  <2>1. told[t][s] = <<>> \/ \E d \in BOOLEAN : told[t][s] = <<d>>
    BY <1>1 DEF Told
  <2>2. Len(told[t][s]) \in {0, 1}
    BY <2>1, <1>2, <1>3, Zenon
  <2>3. \A n \in {0, 1} : n <= 1
    OBVIOUS
  <2>. QED BY <2>2, <2>3, Zenon
<1>5. prune[t] # None => TRUE \in Range(told[t][prune[t]])
  BY <1>1, <1>2 DEF Told
<1>6. ASSUME outcome[t] # None
      PROVE  /\ outcome[t].tag = "Completed" => Len(retried[t]) = outcome[t].retries
             /\ outcome[t].tag \in {"Completed", "Failed"} => prune[t] = None
  <2>1. phase[t] = "ended" /\ outcome[t] = Verdict(t) /\ exit[t] # None /\ exit[t].tag \in Exits
    BY <1>6 DEF IInv, Left, Shape, ExitRecords
  <2>2. /\ Verdict(t).tag = "Completed" =>
             exit[t].tag = "value" /\ prune[t] = None /\ Verdict(t).retries = tries[t]
        /\ Verdict(t).tag = "Failed" => prune[t] = None
    BY <2>1 DEF Verdict, Exits, Completed, Pruned, Failed, Cancelled, Lost
  <2>3. exit[t].tag = "value" => Len(retried[t]) = tries[t]
    BY <1>1, <2>1 DEF Counted
  <2>. QED BY <2>1, <2>2, <2>3
<1>7. Len(retried[t]) \in {tries[t], tries[t] + 1} /\ \A i \in DOMAIN retried[t] : retried[t][i] = i
  BY <1>1 DEF Counted
<1>. QED BY <1>4, <1>5, <1>6, <1>7

-------------------------------------------------------------------------------
(* What the evaluation of trials does to the cache is what the cache allows: *)
(* Cache!Spec is KeyedCache's specification, and its theorems carry over.    *)
THEOREM UsesCache == Spec => Cache!Spec
<1>1. Init => Cache!Init /\ IInv
  BY InitHolds DEF Init
<1>2. IInv /\ [Next]_vars => IInv' /\ [Cache!Next]_(Cache!vars)
  BY NextPreserves DEF CacheStep, Cache!vars, cacheVars
<1>. QED BY <1>1, <1>2, PTL DEF Spec, Cache!Spec

(* Trials of one configuration complete with one value, whoever computed it, *)
(* failed at it, was interrupted or tried again: a resolution returns what   *)
(* the store holds under the lock, and what it holds is never replaced.      *)
THEOREM OneValue ==
  Spec => []OneValuePerConfig
<1>. QED BY InitHolds, NextPreserves, InvOneValue, PTL DEF Spec

(* A recorded trial has left no fiber, lock or event behind, and is cancelled *)
(* exactly when its interruption was all there was to its end.              *)
THEOREM NothingLeft ==
  Spec => []NothingLeftBehind
<1>. QED BY InitHolds, NextPreserves, InvNothingLeft, PTL DEF Spec

(* The retained events tell of every step once and of every retry in order,  *)
(* and pruned, completed and failed trials are told apart as they say.       *)
THEOREM ReportsAreTruthful ==
  Spec => []ReportsTruthful
<1>1. Init => IInv /\ ReportsInv
  BY InitHolds, ReportsInit
<1>2. IInv /\ ReportsInv /\ [Next]_vars => IInv' /\ ReportsInv'
  BY NextPreserves, ReportsPreserved
<1>3. IInv /\ ReportsInv => ReportsTruthful
  BY InvReports
<1>. QED BY <1>1, <1>2, <1>3, PTL DEF Spec
===============================================================================
