------------------------- MODULE OptimizationRunProofs -------------------------
(***************************************************************************)
(* Theorems about OptimizationRun, for any finite set of workers, budgets,  *)
(* space and number of legs.  Durable relates the journal, the checkpoint   *)
(* and the recorded outcomes, and needs nothing of a process that has died; *)
(* StudyOK and AliveOK relate them to the study of the leg under way;       *)
(* WorkOK, QueueOK and PhaseOK say what the workers and the main fiber know *)
(* of it where they are.  The cost has an invariant of its own, Budget.     *)
(***************************************************************************)
EXTENDS OptimizationRun, FiniteSetTheorems, WellFoundedInduction, TLAPS

-------------------------------------------------------------------------------
(* The inductive invariant                                                  *)

Reserving == {"starting", "evaluating", "finished", "journaling"}
Busy == {"checking", "admitted", "recorded"} \cup Reserving
Idle == {"polling", "done", "stopped"}

(* Numbers below Top have been queued in some leg; the checkpoint numbers   *)
(* the trials below Floor.                                                  *)
Top == Trials * leg
Saved == IF checkpoint = None THEN << >> ELSE checkpoint.trials
SavedDraws == IF checkpoint = None THEN 0 ELSE checkpoint.draws
Floor == NextNumber(Saved)

IsHistory(h) == h \in [DOMAIN h -> States] /\ DOMAIN h \subseteq 0..(Top - 1)
Records == [trial : Nat, state : Outcomes, draws : 0..SpaceSize]

Flags ==
  /\ phase \in Phases /\ cause \in {"Cancelled", "Failed"}
  /\ lifecycle \in {"Created", "Running", "Completed", "Cancelled", "Failed"}
  /\ draws \in 0..SpaceSize /\ leg \in 1..MaxLegs
  /\ reason \in Reasons \cup {None}

LockOK ==
  /\ lock \in Workers \cup {None}
  /\ \A w \in Workers : (lock = w) <=> (pc[w] = "journaling")

StoreOK ==
  /\ journal \in Seq(Records) /\ cursor \in 0..Len(journal)
  /\ \A i \in DOMAIN journal : journal[i].trial < Top
  /\ checkpoint = None \/ checkpoint \in [trials : Histories, draws : 0..SpaceSize]
  /\ IsHistory(Saved) /\ SavedDraws \in 0..SpaceSize

Fits(w) ==
  /\ pc[w] \in Busy =>
       /\ job[w] \in [trial : Nat, state : {None} \cup States] /\ job[w].trial < Top
       /\ Floor <= job[w].trial
       /\ lifecycle = "Running" /\ phase \in {"trials", "stopping"}
  /\ pc[w] \in {"checking", "admitted"} => job[w].trial \notin DOMAIN trials
  /\ pc[w] \in Reserving \cup {"recorded"} => job[w].trial \in DOMAIN trials
  /\ pc[w] \in Reserving =>
       /\ job[w].state \in States
       /\ trials[job[w].trial].tag = "Running"
       /\ trials[job[w].trial].draw = job[w].state.draw
       /\ SavedDraws <= job[w].state.draw
  /\ pc[w] \in {"starting", "evaluating"} => job[w].state.tag = "Running"
  /\ pc[w] \in {"finished", "journaling", "recorded"} => job[w].state \in Outcomes

WorkOK ==
  /\ pc \in [Workers -> Busy \cup Idle]
  /\ job \in [Workers -> {None} \cup Jobs]
  /\ \A w \in Workers : Fits(w)
  /\ \A v, w \in Workers :
       pc[v] \in Busy /\ pc[w] \in Busy /\ job[v].trial = job[w].trial => v = w

QueueOK ==
  /\ queue \in Seq(Nat)
  /\ \A i \in DOMAIN queue : queue[i] < Top
  /\ \A i, j \in DOMAIN queue : i < j => queue[i] < queue[j]
  /\ phase = "trials" => \A i \in DOMAIN queue :
       /\ Floor <= queue[i] /\ \A n \in DOMAIN trials : n < queue[i]
       /\ \A w \in Workers : pc[w] \in Busy => job[w].trial < queue[i]

NothingPending == \A n \in DOMAIN trials : trials[n].tag # "Running"

PhaseOK ==
  /\ phase = "trials" => lifecycle = "Running"
  /\ phase \in {"completed", "announced"} => lifecycle = "Completed"
  /\ phase = "stopping" => lifecycle \in {"Running", "Completed"}
  /\ phase \notin {"trials", "stopping"} => \A w \in Workers : pc[w] \in {"done", "stopped"}
  /\ phase \in {"completed", "announced", "persisting", "ended"} => NothingPending
  /\ phase = "trials" => \A n \in DOMAIN trials : trials[n].tag = "Running" =>
       \E w \in Workers : pc[w] \in Reserving /\ job[w].trial = n

(* What is durable: the journal numbers and draws every trial once; its     *)
(* sampler positions do not fall; what was recorded is in it; and the       *)
(* checkpoint cuts it in two: what it numbers it knows and has drawn, and   *)
(* what it does not number came after it and was drawn after it.            *)
JournalOK ==
  /\ \A i, j \in DOMAIN journal : journal[i].trial = journal[j].trial => i = j
  /\ \A i, j \in DOMAIN journal : journal[i].state.draw = journal[j].state.draw => i = j
  /\ \A i, j \in DOMAIN journal : i < j => journal[i].draws <= journal[j].draws
  /\ \A i \in DOMAIN journal : journal[i].state.draw < journal[i].draws

Holds(log, n, s) == \E i \in DOMAIN log : log[i].trial = n /\ log[i].state = s

KeptOK ==
  /\ \A n \in DOMAIN kept : n \in Nat /\ kept[n] \in Outcomes /\ Holds(journal, n, kept[n])
  /\ \A n \in DOMAIN kept : n < Floor => n \in DOMAIN Saved /\ Saved[n] = kept[n]

SavedOK ==
  /\ \A n \in DOMAIN Saved :
       /\ Saved[n].tag # "Running" /\ Saved[n].draw < SavedDraws
       /\ Saved[n].tag \in {"Completed", "Failed"} => Holds(journal, n, Saved[n])
  /\ \A n, k \in DOMAIN Saved : Saved[n].draw = Saved[k].draw => n = k
  /\ \A i \in DOMAIN journal :
       /\ journal[i].trial < Floor =>
            /\ journal[i].trial \in DOMAIN Saved /\ journal[i].draws <= SavedDraws
            /\ Saved[journal[i].trial].draw = journal[i].state.draw
       /\ journal[i].trial >= Floor => SavedDraws <= journal[i].state.draw
  /\ \A i, j \in DOMAIN journal :
       i < j /\ journal[i].trial >= Floor => journal[j].trial >= Floor

(* The study of a process that is alive.                                    *)
StudyOK ==
  /\ IsHistory(trials)
  /\ \A n \in DOMAIN trials : trials[n].draw < draws
  /\ \A n, k \in DOMAIN trials : trials[n].draw = trials[k].draw => n = k

AliveOK ==
  phase # "down" =>
    /\ SavedDraws <= draws
    /\ \A i \in DOMAIN journal :
         /\ journal[i].trial \in DOMAIN trials
         /\ trials[journal[i].trial].draw = journal[i].state.draw
         /\ journal[i].draws <= draws
    /\ \A n \in DOMAIN trials :
         trials[n].tag \in {"Completed", "Failed"} => Holds(journal, n, trials[n])
    /\ \A n \in DOMAIN kept : n \in DOMAIN trials /\ trials[n] = kept[n]

Durable == StoreOK /\ JournalOK /\ KeptOK /\ SavedOK
IInv == Flags /\ LockOK /\ WorkOK /\ QueueOK /\ PhaseOK /\ StudyOK /\ AliveOK /\ Durable

-------------------------------------------------------------------------------
(* Numbers                                                                  *)

LEMMA MaxExists ==
  ASSUME NEW b \in Nat, NEW T \in SUBSET (0..b), T # {}
  PROVE  \E m \in T : \A k \in T : k <= m
<1>. DEFINE D == {b - t : t \in T}
            R == OpToRel(<, Nat)
<1>1. D \subseteq Nat /\ D # {}
  <2>1. \A t \in T : b - t \in Nat
    OBVIOUS
  <2>2. PICK t \in T : TRUE
    OBVIOUS
  <2>3. b - t \in D
    BY <2>2
  <2>. QED BY <2>1, <2>3
<1>2. \E x \in D : \A y \in D : ~(<<y, x>> \in R)
  <2>. HIDE DEF D
  <2>. QED BY <1>1, NatLessThanWellFounded, WFMin
<1>3. PICK x \in D : \A y \in D : ~(<<y, x>> \in R)
  BY <1>2
<1>4. ASSUME NEW y \in D PROVE x <= y
  <2>1. x \in Nat /\ y \in Nat
    BY <1>1, <1>3
  <2>2. y < x => <<y, x>> \in R
    BY <2>1 DEF OpToRel
  <2>3. ~(y < x)
    BY <1>3, <2>2
  <2>. QED BY <2>1, <2>3
<1>5. PICK m \in T : x = b - m
  BY <1>3
<1>6. \A k \in T : b - m <= b - k
  BY <1>4, <1>5
<1>. HIDE DEF D, R
<1>. QED BY <1>6

(* The next number is beyond the history's, and right after its last.       *)
LEMMA Next1 ==
  ASSUME NEW h, NEW b \in Nat, DOMAIN h \subseteq 0..(b - 1)
  PROVE  /\ NextNumber(h) \in 0..b
         /\ \A n \in DOMAIN h : n < NextNumber(h)
<1>1. CASE DOMAIN h = {}
  BY <1>1 DEF NextNumber
<1>2. CASE DOMAIN h # {}
  <2>0. DOMAIN h \in SUBSET (0..b)
    BY DEF NextNumber
  <2>1. \E m \in DOMAIN h : \A k \in DOMAIN h : k <= m
    BY <1>2, <2>0, MaxExists
  <2>. DEFINE m == CHOOSE n \in DOMAIN h : \A k \in DOMAIN h : k <= n
  <2>2. m \in DOMAIN h /\ \A k \in DOMAIN h : k <= m
    BY <2>1
  <2>3. NextNumber(h) = 1 + m
    BY <1>2 DEF NextNumber
  <2>. HIDE DEF m
  <2>. QED BY <2>2, <2>3
<1>. QED BY <1>1, <1>2

LEMMA TopFacts ==
  ASSUME RunAssumption, leg \in 1..MaxLegs
  PROVE  Top \in Nat /\ Top <= Trials * MaxLegs /\ Trials * MaxLegs \in Nat
<1>1. PICK d \in Nat : MaxLegs = leg + d
  BY DEF RunAssumption
<1>2. Trials * MaxLegs = Trials * leg + Trials * d
  BY <1>1 DEF RunAssumption
<1>3. Trials * leg \in Nat /\ Trials * d \in Nat
  BY DEF RunAssumption
<1>. QED BY <1>2, <1>3 DEF Top

LEMMA TopGrows ==
  ASSUME RunAssumption, leg \in Nat, leg' = leg + 1
  PROVE  Top' = Top + Trials
BY DEF Top, RunAssumption

LEMMA FloorFacts ==
  ASSUME RunAssumption, Flags, StoreOK
  PROVE  Floor \in 0..Top /\ \A n \in DOMAIN Saved : n < Floor
<1>1. Top \in Nat
  BY TopFacts DEF Flags
<1>. QED BY <1>1, Next1 DEF Floor, StoreOK, IsHistory

(* A history below Top is one of TypeOK's.                                  *)
LEMMA HistoryTypes ==
  ASSUME RunAssumption, Flags, NEW h, IsHistory(h)
  PROVE  h \in Histories /\ \A n \in DOMAIN h : n \in Numbers
<1>1. DOMAIN h \in SUBSET Numbers
  BY TopFacts DEF Flags, IsHistory, Numbers
<1>2. h \in [DOMAIN h -> States]
  BY DEF IsHistory
<1>. QED BY <1>1, <1>2 DEF Histories

(* What a state may be.                                                     *)
LEMMA StateFacts ==
  /\ Outcomes \subseteq States
  /\ \A s \in States : /\ s.tag = "Running" \/ s \in Outcomes
                       /\ s.draw \in 0..(SpaceSize - 1)
                       /\ s.tag \in OutcomeTags \cup {"Running"}
  /\ \A s \in Outcomes : s.tag # "Running"
BY DEF Outcomes, States, OutcomeTags, Draws

-------------------------------------------------------------------------------
(* Steps that change neither the history nor what is durable                *)

Same == UNCHANGED <<lifecycle, trials, draws, stored, checkpoint, kept, leg>>

LEMMA DurableKept ==
  ASSUME Durable, UNCHANGED <<journal, checkpoint, kept, leg>>, cursor' \in 0..Len(journal)
  PROVE  /\ Durable'
         /\ Saved' = Saved /\ SavedDraws' = SavedDraws /\ Floor' = Floor /\ Top' = Top
<1>1. Saved' = Saved /\ SavedDraws' = SavedDraws /\ Top' = Top
  BY DEF Saved, SavedDraws, Top
<1>2. Floor' = Floor
  BY <1>1 DEF Floor
<1>3. StoreOK'
  BY <1>1 DEF Durable, StoreOK, IsHistory, Records, Outcomes, States, Histories
<1>4. JournalOK' /\ KeptOK' /\ SavedOK'
  BY <1>1, <1>2 DEF Durable, JournalOK, KeptOK, SavedOK, Holds, Outcomes
<1>. QED BY <1>1, <1>2, <1>3, <1>4 DEF Durable

LEMMA DurableSame ==
  ASSUME Durable, Same
  PROVE  /\ Durable'
         /\ Saved' = Saved /\ SavedDraws' = SavedDraws /\ Floor' = Floor /\ Top' = Top
<1>1. cursor \in 0..Len(journal) /\ UNCHANGED <<journal, checkpoint, kept, leg, cursor>>
  BY DEF Durable, StoreOK, Same, stored
<1>. QED BY <1>1, DurableKept

(* How a worker may move on with its trial as it is.                        *)
Moves(w) ==
  \/ pc'[w] = pc[w] /\ job'[w] = job[w]
  \/ pc'[w] \in Idle
  \/ /\ job'[w] = job[w]
     /\ <<pc[w], pc'[w]>> \in {<<"checking", "admitted">>, <<"starting", "evaluating">>,
                               <<"finished", "journaling">>}
  \/ /\ pc[w] = "evaluating" /\ pc'[w] = "finished" /\ job'[w].trial = job[w].trial
     /\ job'[w].state \in Outcomes /\ job'[w].state.draw = job[w].state.draw
     /\ job'[w] \in Jobs

PhaseMoves ==
  \/ /\ phase' = phase /\ phase # "down"
     /\ phase = "trials" => \A w \in Workers : pc[w] \in Reserving => pc'[w] \in Reserving
     /\ phase \notin {"trials", "stopping"} => pc' = pc
  \/ phase' = "stopping" /\ phase \in {"trials", "completed", "announced"}
  \/ phase = "completed" /\ phase' = "announced" /\ pc' = pc
  \/ phase = "stopping" /\ phase' = "died" /\ pc' = pc
     /\ \A w \in Workers : pc[w] \in {"done", "stopped"}

LEMMA CalmStudy ==
  ASSUME IInv, UNCHANGED <<lifecycle, trials, draws, queue>>,
         Saved' = Saved, SavedDraws' = SavedDraws, Floor' = Floor, Top' = Top, PhaseMoves,
         pc' \in [Workers -> Busy \cup Idle], job' \in [Workers -> {None} \cup Jobs],
         \A w \in Workers : Moves(w)
  PROVE  WorkOK' /\ QueueOK' /\ PhaseOK' /\ StudyOK'
<1>. USE DEF IInv
<1>1. Saved' = Saved /\ SavedDraws' = SavedDraws /\ Floor' = Floor /\ Top' = Top
  OBVIOUS
<1>2. lifecycle' = lifecycle /\ trials' = trials /\ draws' = draws
  OBVIOUS
<1>3. ASSUME NEW w \in Workers, pc'[w] \in Busy
      PROVE  /\ pc[w] \in Busy /\ job'[w].trial = job[w].trial
             /\ Fits(w)'
  <2>1. pc[w] \in Busy /\ job'[w].trial = job[w].trial
    BY <1>3 DEF Moves, Busy, Idle, Reserving
  <2>2. Fits(w) /\ phase' \in {"trials", "stopping"}
    BY <1>3, <2>1 DEF WorkOK, Fits, PhaseMoves, Busy, Reserving
  <2>3. CASE pc'[w] = pc[w] /\ job'[w] = job[w]
    BY <1>1, <1>2, <2>1, <2>2, <2>3 DEF Fits
  <2>4. CASE /\ job'[w] = job[w]
             /\ <<pc[w], pc'[w]>> \in {<<"checking", "admitted">>, <<"starting", "evaluating">>,
                                       <<"finished", "journaling">>}
    BY <1>1, <1>2, <2>1, <2>2, <2>4 DEF Fits, Busy, Reserving
  <2>5. CASE /\ pc[w] = "evaluating" /\ pc'[w] = "finished" /\ job'[w].trial = job[w].trial
             /\ job'[w].state \in Outcomes /\ job'[w].state.draw = job[w].state.draw
             /\ job'[w] \in Jobs
    <3>1. job'[w] \in [trial : Nat, state : {None} \cup States]
      BY <2>1, <2>2, <2>5 DEF Fits, Jobs
    <3>2. /\ trials[job[w].trial].tag = "Running" /\ job[w].trial \in DOMAIN trials
          /\ trials[job[w].trial].draw = job[w].state.draw /\ SavedDraws <= job[w].state.draw
          /\ job[w].trial < Top /\ Floor <= job[w].trial /\ lifecycle = "Running"
      BY <2>1, <2>2, <2>5 DEF Fits, Reserving
    <3>3. job'[w].state \in States
      BY <2>5, StateFacts
    <3>4. pc'[w] \notin {"checking", "admitted", "starting", "evaluating"}
      BY <2>5
    <3>. QED BY <1>1, <1>2, <2>1, <2>2, <2>5, <3>1, <3>2, <3>3, <3>4 DEF Fits
  <2>. QED BY <1>3, <2>1, <2>3, <2>4, <2>5 DEF Moves, Busy, Idle, Reserving
<1>4. WorkOK'
  <2>1. ASSUME NEW w \in Workers, pc'[w] \notin Busy PROVE Fits(w)'
    BY <2>1 DEF Fits, Busy, Reserving
  <2>2. ASSUME NEW v \in Workers, NEW w \in Workers,
               pc'[v] \in Busy, pc'[w] \in Busy, job'[v].trial = job'[w].trial
        PROVE  v = w
    BY <1>3, <2>2 DEF WorkOK
  <2>. QED BY <1>3, <2>1, <2>2 DEF WorkOK
<1>5. QueueOK'
  <2>1. phase' = "trials" => phase = "trials"
    BY DEF PhaseMoves
  <2>. QED BY <1>1, <1>2, <1>3, <2>1 DEF QueueOK
<1>6. PhaseOK'
  <2>1. ASSUME NEW w \in Workers, pc[w] \in Reserving, pc'[w] \in Reserving
        PROVE  job'[w].trial = job[w].trial
    BY <1>3, <2>1 DEF Busy
  <2>2. NothingPending' <=> NothingPending
    BY <1>2 DEF NothingPending
  <2>. QED BY <1>2, <2>1, <2>2 DEF PhaseOK, PhaseMoves
<1>7. StudyOK'
  BY <1>1, <1>2 DEF StudyOK, IsHistory, States
<1>. QED BY <1>4, <1>5, <1>6, <1>7

LEMMA Calm ==
  ASSUME IInv, Same, Flags', LockOK', PhaseMoves, queue' = queue,
         pc' \in [Workers -> Busy \cup Idle], job' \in [Workers -> {None} \cup Jobs],
         \A w \in Workers : Moves(w)
  PROVE  IInv'
<1>1. /\ Durable'
      /\ Saved' = Saved /\ SavedDraws' = SavedDraws /\ Floor' = Floor /\ Top' = Top
  BY DurableSame DEF IInv
<1>2. WorkOK' /\ QueueOK' /\ PhaseOK' /\ StudyOK'
  BY <1>1, CalmStudy DEF Same
<1>3. AliveOK'
  <2>1. phase # "down"
    BY DEF PhaseMoves
  <2>. QED BY <1>1, <2>1 DEF Same, stored, IInv, AliveOK, Holds
<1>. QED BY <1>1, <1>2, <1>3 DEF IInv

(* A worker that moves alone, and the phase with it.                        *)
LEMMA Step ==
  ASSUME IInv, Same, NEW w \in Workers, NEW l, Goto(w, l), UNCHANGED <<queue, lock, job>>,
         Flags', pc[w] # "journaling",
         l \in Idle \/ <<pc[w], l>> \in {<<"checking", "admitted">>, <<"starting", "evaluating">>},
         \/ phase' = phase /\ phase = "trials" /\ (pc[w] \in Reserving => l \in Reserving)
         \/ phase' = "stopping" /\ phase \in {"trials", "stopping"}
  PROVE  IInv'
<1>1. /\ pc \in [Workers -> Busy \cup Idle] /\ job \in [Workers -> {None} \cup Jobs]
  BY DEF IInv, WorkOK
<1>2. /\ pc'[w] = l /\ \A v \in Workers \ {w} : pc'[v] = pc[v]
      /\ job' = job /\ l \in Busy \cup Idle /\ l # "journaling"
      /\ pc' \in [Workers -> Busy \cup Idle]
  <2>1. l \in Busy \cup Idle /\ l # "journaling"
    BY DEF Busy, Idle, Reserving
  <2>. QED BY <1>1, <2>1 DEF Goto
<1>3. LockOK'
  BY <1>2 DEF IInv, LockOK
<1>4. \A v \in Workers : Moves(v)
  BY <1>2 DEF Moves
<1>5. PhaseMoves
  BY <1>2 DEF PhaseMoves
<1>. QED BY <1>1, <1>2, <1>3, <1>4, <1>5, Calm

LEMMA FlagsSame ==
  ASSUME Flags, Same, phase' \in Phases, cause' \in {"Cancelled", "Failed"},
         reason' \in Reasons \cup {None}
  PROVE  Flags'
BY DEF Flags, Same

LEMMA WorkerSteps ==
  ASSUME IInv, NEW w \in Workers,
         \/ Poll(w) /\ queue = << >>
         \/ Admit(w) \/ SpaceExhausted(w) \/ Start(w) \/ Account(w) \/ Fails(w) \/ Stop(w)
  PROVE  IInv'
<1>0. Flags
  BY DEF IInv
<1>1. CASE Poll(w) /\ queue = << >>
  <2>1. Same /\ Goto(w, "done") /\ UNCHANGED <<queue, lock, job, phase, cause, reason>>
    BY <1>1 DEF Poll, Same, main, study
  <2>. QED BY <1>0, <1>1, <2>1, Step, FlagsSame DEF Poll, Idle, Reserving, Flags
<1>2. CASE Admit(w)
  <2>1. Same /\ UNCHANGED <<queue, lock, job, phase, cause>>
    BY <1>2 DEF Admit, Same, main, study
  <2>2. Flags'
    BY <1>0, <1>2, <2>1, FlagsSame DEF Admit, Flags, Mark, Reasons
  <2>3. PICK l \in {"polling", "admitted"} : Goto(w, l)
    BY <1>2 DEF Admit
  <2>. QED BY <1>2, <2>1, <2>2, <2>3, Step DEF Admit, Idle, Reserving
<1>3. CASE SpaceExhausted(w)
  <2>1. Same /\ Goto(w, "polling") /\ UNCHANGED <<queue, lock, job, phase, cause>>
    BY <1>3 DEF SpaceExhausted, Same, main, study
  <2>2. Flags'
    BY <1>0, <1>3, <2>1, FlagsSame DEF SpaceExhausted, Flags, Mark, Reasons
  <2>. QED BY <1>3, <2>1, <2>2, Step DEF SpaceExhausted, Idle, Reserving
<1>4. CASE Start(w)
  <2>1. Same /\ Goto(w, "evaluating") /\ UNCHANGED <<queue, lock, job, phase, cause, reason>>
    BY <1>4 DEF Start, Same, main, study, control
  <2>2. Flags'
    BY <1>0, <2>1, FlagsSame DEF Flags
  <2>. QED BY <1>4, <2>1, <2>2, Step DEF Start, Reserving
<1>5. CASE Account(w)
  <2>1. Same /\ Goto(w, "polling") /\ UNCHANGED <<queue, lock, job, phase, cause>>
    BY <1>5 DEF Account, Same, main, study
  <2>2. Flags'
    BY <1>0, <1>5, <2>1, FlagsSame DEF Account, Flags, Mark, Reasons
  <2>. QED BY <1>5, <2>1, <2>2, Step DEF Account, Idle, Reserving
<1>6. CASE Fails(w)
  <2>1. /\ Same /\ Goto(w, "stopped") /\ UNCHANGED <<queue, lock, job, reason>>
        /\ phase' = "stopping" /\ cause' = "Failed"
    BY <1>6 DEF Fails, StopAll, Same, study, control
  <2>2. Flags'
    BY <1>0, <2>1, FlagsSame DEF Flags, Phases
  <2>. QED BY <1>6, <2>1, <2>2, Step DEF Fails, Idle
<1>7. CASE Stop(w)
  <2>1. Same /\ Goto(w, "stopped") /\ UNCHANGED <<queue, lock, job, reason, phase, cause>>
    BY <1>7 DEF Stop, Same, main, study, control
  <2>2. Flags'
    BY <1>0, <2>1, FlagsSame DEF Flags
  <2>. QED BY <1>7, <2>1, <2>2, Step DEF Stop, Idle
<1>. QED BY <1>1, <1>2, <1>3, <1>4, <1>5, <1>6, <1>7

(* The main fiber, the caller and the clock move while the workers do not.  *)
LEMMA MainSteps ==
  ASSUME IInv,
         \/ \E w \in Workers : RequestStop(w)
         \/ DurationElapses \/ Announce \/ DieRecording \/ Interrupt
         \/ CompletionFails /\ checkpoint' = checkpoint
  PROVE  IInv'
<1>1. Same /\ UNCHANGED <<queue, lock, pc, job>>
  BY DEF RequestStop, DurationElapses, Announce, DieRecording, Interrupt, CompletionFails,
         StopAll, To, Same, main, study, control
<1>2. Flags'
  <2>1. Flags
    BY DEF IInv
  <2>2. phase' \in Phases /\ cause' \in {"Cancelled", "Failed"}
    BY <2>1 DEF Flags, RequestStop, DurationElapses, Announce, DieRecording, Interrupt,
         CompletionFails, StopAll, To, main, Phases
  <2>3. reason' \in Reasons \cup {None}
    BY <2>1 DEF Flags, RequestStop, DurationElapses, Announce, DieRecording, Interrupt,
         CompletionFails, StopAll, To, control, Mark, Reasons
  <2>. QED BY <1>1, <2>1, <2>2, <2>3, FlagsSame
<1>3. PhaseMoves
  BY <1>1 DEF RequestStop, DurationElapses, Announce, DieRecording, Interrupt,
       CompletionFails, StopAll, To, main, PhaseMoves, Stopped
<1>4. LockOK' /\ \A w \in Workers : Moves(w)
  BY <1>1 DEF IInv, LockOK, Moves
<1>5. pc' \in [Workers -> Busy \cup Idle] /\ job' \in [Workers -> {None} \cup Jobs]
  BY <1>1 DEF IInv, WorkOK
<1>. QED BY <1>1, <1>2, <1>3, <1>4, <1>5, Calm

LEMMA EvaluateStep ==
  ASSUME IInv, NEW w \in Workers, Evaluate(w)
  PROVE  IInv'
<1>1. PICK t \in OutcomeTags : job' = [job EXCEPT ![w].state.tag = t]
  BY RunAssumption DEF Evaluate, OutcomeTags
<1>2. /\ pc \in [Workers -> Busy \cup Idle] /\ job \in [Workers -> {None} \cup Jobs]
      /\ pc[w] = "evaluating" /\ phase = "trials" /\ pc' = [pc EXCEPT ![w] = "finished"]
      /\ Fits(w)
  BY DEF IInv, WorkOK, Evaluate, Goto
<1>3. /\ Same /\ UNCHANGED <<queue, lock, phase, cause, reason>>
  BY DEF Evaluate, Same, main, study, control
<1>4. job[w] \in [trial : Nat, state : {None} \cup States] /\ job[w].state \in States
  BY <1>2 DEF Fits, Busy, Reserving
<1>5. job[w] \in Jobs
  <2>1. job[w].trial < Top /\ Top <= Trials * MaxLegs /\ Trials * MaxLegs \in Nat /\ Top \in Nat
    BY <1>2, TopFacts, RunAssumption DEF Fits, Busy, Reserving, IInv, Flags
  <2>2. job[w].trial \in Numbers
    BY <1>4, <2>1 DEF Numbers
  <2>. QED BY <1>4, <2>2 DEF Jobs
<1>6. /\ job'[w] = [job[w] EXCEPT !.state = [job[w].state EXCEPT !.tag = t]]
      /\ \A v \in Workers \ {w} : job'[v] = job[v]
  BY <1>1, <1>2
<1>7. /\ job'[w].trial = job[w].trial
      /\ job'[w].state = [job[w].state EXCEPT !.tag = t]
  BY <1>4, <1>6
<1>8. job'[w].state \in Outcomes /\ job'[w].state.draw = job[w].state.draw
  BY <1>4, <1>7 DEF States, Outcomes
<1>9. job'[w] \in Jobs
  BY <1>5, <1>6, <1>7, <1>8, StateFacts DEF Jobs
<1>10. pc' \in [Workers -> Busy \cup Idle] /\ job' \in [Workers -> {None} \cup Jobs]
  BY <1>1, <1>2, <1>6, <1>9 DEF Busy, Reserving
<1>11. \A v \in Workers : Moves(v)
  BY <1>2, <1>6, <1>7, <1>8, <1>9 DEF Moves
<1>12. PhaseMoves
  BY <1>2, <1>3 DEF PhaseMoves, Reserving
<1>13. Flags' /\ LockOK'
  BY <1>2, <1>3 DEF IInv, Flags, LockOK, Same
<1>. QED BY <1>3, <1>10, <1>11, <1>12, <1>13, Calm

LEMMA EnterRecordStep ==
  ASSUME IInv, NEW w \in Workers, EnterRecord(w)
  PROVE  IInv'
<1>1. /\ pc \in [Workers -> Busy \cup Idle] /\ job \in [Workers -> {None} \cup Jobs]
      /\ pc[w] = "finished" /\ phase \in {"trials", "stopping"}
      /\ pc' = [pc EXCEPT ![w] = "journaling"]
  BY DEF IInv, WorkOK, Fits, EnterRecord, Goto, Busy, Reserving
<1>2. Same /\ UNCHANGED <<queue, job, phase, cause, reason>> /\ lock = None /\ lock' = w
  BY DEF EnterRecord, Same, main, study, control
<1>3. /\ pc'[w] = "journaling" /\ \A v \in Workers \ {w} : pc'[v] = pc[v]
      /\ pc' \in [Workers -> Busy \cup Idle]
  BY <1>1 DEF Busy, Reserving
<1>4. LockOK'
  BY <1>2, <1>3, RunAssumption DEF IInv, LockOK
<1>5. (\A v \in Workers : Moves(v)) /\ PhaseMoves
  BY <1>1, <1>2, <1>3 DEF Moves, PhaseMoves, Reserving
<1>6. Flags'
  BY <1>2 DEF IInv, Flags, Same
<1>. QED BY <1>1, <1>2, <1>3, <1>4, <1>5, <1>6, Calm

LEMMA JournalFailsUnwritten ==
  ASSUME IInv, NEW w \in Workers, JournalFails(w), journal' = journal
  PROVE  IInv'
<1>1. /\ pc \in [Workers -> Busy \cup Idle] /\ job \in [Workers -> {None} \cup Jobs]
      /\ pc[w] = "journaling" /\ phase \in {"trials", "stopping"}
      /\ pc' = [pc EXCEPT ![w] = "stopped"]
  BY DEF IInv, WorkOK, Fits, JournalFails, Goto, Busy, Reserving
<1>2. /\ Same /\ UNCHANGED <<queue, job, reason>> /\ lock' = None
      /\ phase' = "stopping" /\ cause' = "Failed"
  BY DEF JournalFails, StopAll, Same, study, control, stored
<1>3. /\ pc'[w] = "stopped" /\ \A v \in Workers \ {w} : pc'[v] = pc[v]
      /\ pc' \in [Workers -> Busy \cup Idle]
  BY <1>1 DEF Idle
<1>4. LockOK'
  BY <1>1, <1>2, <1>3, RunAssumption DEF IInv, LockOK
<1>5. (\A v \in Workers : Moves(v)) /\ PhaseMoves
  BY <1>1, <1>2, <1>3 DEF Moves, PhaseMoves, Idle
<1>6. Flags'
  BY <1>2 DEF IInv, Flags, Same, Phases
<1>. QED BY <1>1, <1>2, <1>3, <1>4, <1>5, <1>6, Calm

-------------------------------------------------------------------------------
(* The journal grows                                                        *)

(* What the study knows of the trial whose outcome waits for the journal.   *)
LEMMA Waiting ==
  ASSUME IInv, NEW w \in Workers, pc[w] = "journaling"
  PROVE  /\ Record(w) \in Records /\ job[w].trial < Top /\ Floor <= job[w].trial
         /\ job[w].trial \in DOMAIN trials /\ phase \in {"trials", "stopping"}
         /\ trials[job[w].trial].draw = job[w].state.draw
         /\ trials[job[w].trial].tag = "Running"
         /\ SavedDraws <= job[w].state.draw /\ job[w].state.draw < draws
         /\ lifecycle = "Running"
<1>1. Fits(w) /\ draws \in 0..SpaceSize
  BY DEF IInv, WorkOK, Flags
<1>2. job[w].trial \in Nat /\ job[w].state \in Outcomes
  BY <1>1 DEF Fits, Busy, Reserving
<1>3. Record(w) \in Records
  BY <1>1, <1>2 DEF Record, Records
<1>4. /\ job[w].trial < Top /\ Floor <= job[w].trial
      /\ job[w].trial \in DOMAIN trials /\ phase \in {"trials", "stopping"}
      /\ trials[job[w].trial].draw = job[w].state.draw
      /\ trials[job[w].trial].tag = "Running"
      /\ SavedDraws <= job[w].state.draw /\ lifecycle = "Running"
  BY <1>1 DEF Fits, Busy, Reserving
<1>5. job[w].state.draw < draws
  BY <1>4 DEF IInv, StudyOK
<1>. QED BY <1>3, <1>4, <1>5

LEMMA Appended ==
  ASSUME IInv, NEW w \in Workers, pc[w] = "journaling", AppendsAtTail(job[w].trial),
         journal' = Append(journal, Record(w)), cursor' \in {cursor, 0, Len(journal')},
         UNCHANGED <<checkpoint, leg>>,
         \/ kept' = kept
         \/ kept' = [n \in DOMAIN kept \cup {job[w].trial} |-> Recorded(job[w].trial, job[w].state)[n]]
  PROVE  /\ Durable'
         /\ Saved' = Saved /\ SavedDraws' = SavedDraws /\ Floor' = Floor /\ Top' = Top
         /\ \A n, s : Holds(journal, n, s) => Holds(journal', n, s)
         /\ Holds(journal', job[w].trial, job[w].state)
         /\ \A i \in DOMAIN journal' : journal'[i] = Record(w) \/ \E j \in DOMAIN journal : journal'[i] = journal[j]
<1>. DEFINE t == job[w].trial  s == job[w].state  m == Len(journal)
<1>1. Saved' = Saved /\ SavedDraws' = SavedDraws /\ Top' = Top
  BY DEF Saved, SavedDraws, Top
<1>2. Floor' = Floor
  BY <1>1 DEF Floor
<1>3. /\ Record(w) \in Records /\ t < Top /\ Floor <= t /\ t \in DOMAIN trials
      /\ phase \in {"trials", "stopping"} /\ trials[t].draw = s.draw /\ SavedDraws <= s.draw
      /\ s.draw < draws
  BY Waiting
<1>4. Record(w).trial = t /\ Record(w).state = s /\ Record(w).draws = draws
  BY DEF Record
<1>5. journal \in Seq(Records) /\ cursor \in 0..m /\ \A i \in DOMAIN journal : journal[i].trial < Top
  BY DEF IInv, Durable, StoreOK
<1>6. /\ Len(journal') = m + 1 /\ DOMAIN journal = 1..m /\ DOMAIN journal' = 1..(m + 1)
      /\ journal'[m + 1] = Record(w) /\ \A i \in 1..m : journal'[i] = journal[i]
      /\ journal' \in Seq(Records) /\ m \in Nat
  BY <1>3, <1>5
<1>7. /\ \A i \in 1..m : journal[i].trial # t
      /\ \A i \in 1..m : journal[i].state.draw # s.draw /\ journal[i].draws <= draws
  <2>1. \A i \in 1..m : journal[i].trial # t
    BY <1>6 DEF AppendsAtTail
  <2>2. ASSUME NEW i \in 1..m
        PROVE  journal[i].state.draw # s.draw /\ journal[i].draws <= draws
    <3>1. /\ journal[i].trial \in DOMAIN trials /\ journal[i].draws <= draws
          /\ trials[journal[i].trial].draw = journal[i].state.draw
      BY <1>3, <1>6 DEF IInv, AliveOK
    <3>. QED BY <1>3, <2>1, <3>1 DEF IInv, StudyOK
  <2>. QED BY <2>1, <2>2
<1>. HIDE DEF t, s, m
<1>8. StoreOK'
  <2>1. \A i \in DOMAIN journal' : journal'[i].trial < Top'
    BY <1>1, <1>3, <1>4, <1>5, <1>6
  <2>2. cursor' \in 0..Len(journal')
    BY <1>5, <1>6
  <2>3. IsHistory(Saved)' /\ SavedDraws' \in 0..SpaceSize
    BY <1>1 DEF IInv, Durable, StoreOK, IsHistory, States
  <2>4. checkpoint' = None \/ checkpoint' \in [trials : Histories, draws : 0..SpaceSize]
    BY DEF IInv, Durable, StoreOK
  <2>. QED BY <1>6, <2>1, <2>2, <2>3, <2>4 DEF StoreOK, Records, Outcomes
<1>9. JournalOK'
  <2>1. JournalOK
    BY DEF IInv, Durable
  <2>2. \A i, j \in DOMAIN journal' : journal'[i].trial = journal'[j].trial => i = j
    BY <1>4, <1>6, <1>7, <2>1 DEF JournalOK
  <2>3. \A i, j \in DOMAIN journal' : journal'[i].state.draw = journal'[j].state.draw => i = j
    BY <1>4, <1>6, <1>7, <2>1 DEF JournalOK
  <2>4. \A i, j \in DOMAIN journal' : i < j => journal'[i].draws <= journal'[j].draws
    BY <1>4, <1>6, <1>7, <2>1 DEF JournalOK
  <2>5. \A i \in DOMAIN journal' : journal'[i].state.draw < journal'[i].draws
    BY <1>3, <1>4, <1>6, <2>1 DEF JournalOK
  <2>. QED BY <2>2, <2>3, <2>4, <2>5 DEF JournalOK
<1>10. \A n, o : Holds(journal, n, o) => Holds(journal', n, o)
  BY <1>6 DEF Holds
<1>11. Holds(journal', t, s)
  BY <1>4, <1>6 DEF Holds
<1>12. KeptOK'
  <2>0. KeptOK /\ t \in Nat /\ s \in Outcomes /\ Floor \in Nat
    <3>1. t \in Nat /\ s \in Outcomes
      BY <1>3, <1>4 DEF Records
    <3>2. Floor \in Nat
      BY FloorFacts, RunAssumption DEF IInv, Durable
    <3>. QED BY <3>1, <3>2 DEF IInv, Durable
  <2>1. CASE kept' = kept
    BY <1>1, <1>2, <1>10, <2>0, <2>1 DEF KeptOK, Outcomes
  <2>2. CASE kept' = [n \in DOMAIN kept \cup {t} |-> Recorded(t, s)[n]]
    <3>1. \A n \in DOMAIN kept \ {t} : n \in DOMAIN trials /\ trials[n] = kept[n]
      BY <1>3 DEF IInv, AliveOK
    <3>2. /\ DOMAIN kept' = DOMAIN kept \cup {t} /\ kept'[t] = s
          /\ \A n \in DOMAIN kept \ {t} : kept'[n] = kept[n]
      BY <2>2, <3>1 DEF Recorded
    <3>3. \A n \in DOMAIN kept' : n \in Nat /\ kept'[n] \in Outcomes /\ Holds(journal', n, kept'[n])
      BY <1>10, <1>11, <2>0, <3>2 DEF KeptOK
    <3>4. \A n \in DOMAIN kept' : n < Floor => n \in DOMAIN Saved /\ Saved[n] = kept'[n]
      BY <1>3, <2>0, <3>2 DEF KeptOK
    <3>. QED BY <1>1, <1>2, <3>3, <3>4 DEF KeptOK, Outcomes
  <2>. QED BY <2>1, <2>2 DEF t, s
<1>13. SavedOK'
  <2>0. SavedOK /\ t \in Nat /\ Floor \in Nat
    <3>1. t \in Nat
      BY <1>3, <1>4 DEF Records
    <3>2. Floor \in Nat
      BY FloorFacts, RunAssumption DEF IInv, Durable
    <3>. QED BY <3>1, <3>2 DEF IInv, Durable
  <2>1. \A n \in DOMAIN Saved :
          /\ Saved[n].tag # "Running" /\ Saved[n].draw < SavedDraws
          /\ Saved[n].tag \in {"Completed", "Failed"} => Holds(journal', n, Saved[n])
    BY <1>10, <2>0 DEF SavedOK
  <2>2. \A n, k \in DOMAIN Saved : Saved[n].draw = Saved[k].draw => n = k
    BY <2>0 DEF SavedOK
  <2>3. \A i \in DOMAIN journal' :
          /\ journal'[i].trial < Floor =>
               /\ journal'[i].trial \in DOMAIN Saved /\ journal'[i].draws <= SavedDraws
               /\ Saved[journal'[i].trial].draw = journal'[i].state.draw
          /\ journal'[i].trial >= Floor => SavedDraws <= journal'[i].state.draw
    BY <1>3, <1>4, <1>6, <2>0 DEF SavedOK
  <2>4. \A i, j \in DOMAIN journal' :
          i < j /\ journal'[i].trial >= Floor => journal'[j].trial >= Floor
    BY <1>3, <1>4, <1>6, <2>0 DEF SavedOK
  <2>. QED BY <1>1, <1>2, <2>1, <2>2, <2>3, <2>4 DEF SavedOK
<1>14. \A i \in DOMAIN journal' :
         journal'[i] = Record(w) \/ \E j \in DOMAIN journal : journal'[i] = journal[j]
  BY <1>6
<1>. QED BY <1>1, <1>2, <1>8, <1>9, <1>10, <1>11, <1>12, <1>13, <1>14 DEF Durable, t, s

LEMMA JournalFailsWritten ==
  ASSUME IInv, NEW w \in Workers, JournalFails(w), journal' # journal
  PROVE  IInv'
<1>1. /\ pc \in [Workers -> Busy \cup Idle] /\ job \in [Workers -> {None} \cup Jobs]
      /\ pc[w] = "journaling" /\ phase \in {"trials", "stopping"}
      /\ pc' = [pc EXCEPT ![w] = "stopped"]
  BY DEF IInv, WorkOK, Fits, JournalFails, Goto, Busy, Reserving
<1>2. /\ UNCHANGED <<lifecycle, trials, draws, queue, job, reason, checkpoint, kept, leg, cursor>>
      /\ lock' = None /\ phase' = "stopping" /\ cause' = "Failed"
      /\ AppendsAtTail(job[w].trial) /\ journal' = Append(journal, Record(w))
  BY DEF JournalFails, StopAll, study, control
<1>3. /\ pc'[w] = "stopped" /\ \A v \in Workers \ {w} : pc'[v] = pc[v]
      /\ pc' \in [Workers -> Busy \cup Idle]
  BY <1>1 DEF Idle
<1>4. LockOK'
  BY <1>1, <1>2, <1>3, RunAssumption DEF IInv, LockOK
<1>5. (\A v \in Workers : Moves(v)) /\ PhaseMoves
  BY <1>1, <1>2, <1>3 DEF Moves, PhaseMoves, Idle
<1>6. Flags'
  BY <1>2 DEF IInv, Flags, Phases
<1>7. /\ Durable'
      /\ Saved' = Saved /\ SavedDraws' = SavedDraws /\ Floor' = Floor /\ Top' = Top
      /\ \A n, s : Holds(journal, n, s) => Holds(journal', n, s)
      /\ \A i \in DOMAIN journal' :
           journal'[i] = Record(w) \/ \E j \in DOMAIN journal : journal'[i] = journal[j]
  BY <1>1, <1>2, Appended
<1>8. WorkOK' /\ QueueOK' /\ PhaseOK' /\ StudyOK'
  BY <1>1, <1>2, <1>3, <1>5, <1>7, CalmStudy
<1>9. AliveOK'
  <2>1. /\ job[w].trial \in DOMAIN trials /\ draws \in Nat
        /\ trials[job[w].trial].draw = job[w].state.draw
    BY <1>1, Waiting DEF IInv, Flags
  <2>2. \A i \in DOMAIN journal' :
          /\ journal'[i].trial \in DOMAIN trials
          /\ trials[journal'[i].trial].draw = journal'[i].state.draw
          /\ journal'[i].draws <= draws
    BY <1>1, <1>7, <2>1 DEF IInv, AliveOK, Record
  <2>. QED BY <1>1, <1>2, <1>7, <2>2 DEF IInv, AliveOK
<1>. QED BY <1>4, <1>6, <1>7, <1>8, <1>9 DEF IInv

LEMMA JournaledStep ==
  ASSUME IInv, NEW w \in Workers, Journaled(w)
  PROVE  IInv'
<1>. DEFINE t == job[w].trial  s == job[w].state
<1>1. /\ pc \in [Workers -> Busy \cup Idle] /\ job \in [Workers -> {None} \cup Jobs]
      /\ pc[w] = "journaling" /\ pc' = [pc EXCEPT ![w] = "recorded"]
  BY DEF IInv, WorkOK, Journaled, Goto
<1>2. /\ UNCHANGED <<lifecycle, draws, queue, job, reason, checkpoint, leg, phase, cause>>
      /\ lock' = None /\ cursor' = Len(journal') /\ trials' = Recorded(t, s)
      /\ AppendsAtTail(t) /\ journal' = Append(journal, Record(w))
      /\ kept' = [n \in DOMAIN kept \cup {t} |-> trials'[n]]
  BY DEF Journaled, main, control
<1>3. /\ pc'[w] = "recorded" /\ \A v \in Workers \ {w} : pc'[v] = pc[v]
      /\ pc' \in [Workers -> Busy \cup Idle]
  BY <1>1 DEF Busy
<1>4. LockOK'
  BY <1>1, <1>2, <1>3, RunAssumption DEF IInv, LockOK
<1>5. Flags'
  BY <1>2 DEF IInv, Flags
<1>6. /\ Durable'
      /\ Saved' = Saved /\ SavedDraws' = SavedDraws /\ Floor' = Floor /\ Top' = Top
      /\ \A n, o : Holds(journal, n, o) => Holds(journal', n, o)
      /\ Holds(journal', t, s)
      /\ \A i \in DOMAIN journal' :
           journal'[i] = Record(w) \/ \E j \in DOMAIN journal : journal'[i] = journal[j]
  BY <1>1, <1>2, Appended
<1>7. /\ t \in DOMAIN trials /\ phase \in {"trials", "stopping"} /\ trials[t].draw = s.draw
      /\ draws \in Nat /\ s \in Outcomes /\ lifecycle = "Running"
      /\ t \in Nat /\ t < Top /\ Floor <= t
  BY <1>1, Waiting DEF IInv, Flags, Record, Records
<1>8. /\ DOMAIN trials' = DOMAIN trials /\ trials'[t] = s
      /\ \A n \in DOMAIN trials \ {t} : trials'[n] = trials[n]
      /\ \A n \in DOMAIN trials : trials'[n].draw = trials[n].draw
  <2>1. DOMAIN trials \cup {t} = DOMAIN trials
    BY <1>7
  <2>. QED BY <1>2, <1>7, <2>1 DEF Recorded
<1>9. \A v \in Workers \ {w} : pc[v] \in Busy => job[v].trial # t
  BY <1>1 DEF IInv, WorkOK, Busy, Reserving
<1>10. WorkOK'
  <2>1. ASSUME NEW v \in Workers, v # w PROVE Fits(v)'
    <3>1. Fits(v) /\ pc'[v] = pc[v] /\ job'[v] = job[v]
      BY <1>2, <1>3, <2>1 DEF IInv, WorkOK
    <3>2. pc[v] \in Reserving \cup {"recorded"} => job[v].trial \in DOMAIN trials'
      BY <1>8, <3>1 DEF Fits
    <3>3. pc[v] \in Reserving => trials'[job[v].trial] = trials[job[v].trial]
      BY <1>8, <1>9, <2>1, <3>1 DEF Fits, Busy
    <3>. QED BY <1>2, <1>6, <1>8, <3>1, <3>2, <3>3 DEF Fits
  <2>2. Fits(w)'
    <3>1. Fits(w) /\ pc'[w] = "recorded" /\ job'[w] = job[w]
      BY <1>2, <1>3 DEF IInv, WorkOK
    <3>2. job[w] \in [trial : Nat, state : {None} \cup States]
      BY <1>1, <3>1 DEF Fits, Busy, Reserving
    <3>. QED BY <1>2, <1>6, <1>7, <1>8, <3>1, <3>2 DEF Fits, Reserving
  <2>3. \A v \in Workers : pc'[v] \in Busy => pc[v] \in Busy
    BY <1>1, <1>3 DEF Busy, Reserving
  <2>4. \A u, v \in Workers :
          pc'[u] \in Busy /\ pc'[v] \in Busy /\ job'[u].trial = job'[v].trial => u = v
    BY <1>2, <2>3 DEF IInv, WorkOK
  <2>5. job' \in [Workers -> {None} \cup Jobs]
    BY <1>1, <1>2
  <2>. QED BY <1>3, <2>1, <2>2, <2>4, <2>5 DEF WorkOK
<1>11. QueueOK'
  <2>1. \A v \in Workers : pc'[v] \in Busy => pc[v] \in Busy
    BY <1>1, <1>3 DEF Busy, Reserving
  <2>. QED BY <1>2, <1>6, <1>8, <2>1 DEF IInv, QueueOK
<1>12. PhaseOK'
  <2>1. ASSUME phase = "trials", NEW n \in DOMAIN trials', trials'[n].tag = "Running"
        PROVE  \E v \in Workers : pc'[v] \in Reserving /\ job'[v].trial = n
    <3>1. n # t
      BY <1>7, <1>8, <2>1, StateFacts
    <3>2. n \in DOMAIN trials /\ trials[n].tag = "Running"
      BY <1>8, <2>1, <3>1
    <3>3. PICK v \in Workers : pc[v] \in Reserving /\ job[v].trial = n
      BY <2>1, <3>2 DEF IInv, PhaseOK
    <3>4. v # w
      BY <3>1, <3>3
    <3>. QED BY <1>2, <1>3, <3>3, <3>4
  <2>2. phase \in {"trials", "stopping"}
    BY <1>7
  <2>. QED BY <1>2, <1>7, <2>1, <2>2 DEF PhaseOK
<1>13. StudyOK'
  <2>1. IsHistory(trials) /\ StudyOK
    BY DEF IInv, StudyOK
  <2>2. s \in States
    BY <1>7, StateFacts
  <2>3. trials' \in [DOMAIN trials' -> States]
    <3>1. \A n \in DOMAIN trials : trials'[n] \in States
      BY <1>8, <2>1, <2>2 DEF IsHistory
    <3>. QED BY <1>2, <1>8, <3>1 DEF Recorded
  <2>4. IsHistory(trials)'
    BY <1>6, <1>8, <2>1, <2>3 DEF IsHistory, States
  <2>. QED BY <1>2, <1>8, <2>1, <2>4 DEF StudyOK
<1>14. AliveOK'
  <2>1. \A i \in DOMAIN journal' :
          /\ journal'[i].trial \in DOMAIN trials'
          /\ trials'[journal'[i].trial].draw = journal'[i].state.draw
          /\ journal'[i].draws <= draws
    BY <1>6, <1>7, <1>8 DEF IInv, AliveOK, Record
  <2>2. \A n \in DOMAIN trials' :
          trials'[n].tag \in {"Completed", "Failed"} => Holds(journal', n, trials'[n])
    BY <1>6, <1>7, <1>8 DEF IInv, AliveOK
  <2>3. \A n \in DOMAIN kept' : n \in DOMAIN trials' /\ trials'[n] = kept'[n]
    BY <1>2, <1>7, <1>8 DEF IInv, AliveOK
  <2>4. SavedDraws <= draws
    BY <1>7 DEF IInv, AliveOK
  <2>. QED BY <1>2, <1>6, <2>1, <2>2, <2>3, <2>4 DEF AliveOK
<1>. QED BY <1>4, <1>5, <1>6, <1>10, <1>11, <1>12, <1>13, <1>14 DEF IInv

-------------------------------------------------------------------------------
(* Trials begin                                                             *)

LEMMA PollTakes ==
  ASSUME IInv, NEW w \in Workers, Poll(w), queue # << >>
  PROVE  IInv'
<1>. DEFINE q == Head(queue)
<1>1. /\ pc \in [Workers -> Busy \cup Idle] /\ job \in [Workers -> {None} \cup Jobs]
      /\ pc[w] = "polling" /\ phase = "trials" /\ pc' = [pc EXCEPT ![w] = "checking"]
      /\ job' = [job EXCEPT ![w] = [trial |-> q, state |-> None]] /\ queue' = Tail(queue)
  BY DEF IInv, WorkOK, Poll, Goto
<1>2. Same /\ UNCHANGED <<phase, cause, reason, lock>>
  BY DEF Poll, Same, main, study
<1>3. /\ Durable'
      /\ Saved' = Saved /\ SavedDraws' = SavedDraws /\ Floor' = Floor /\ Top' = Top
  BY <1>2, DurableSame DEF IInv
<1>4. /\ lifecycle' = lifecycle /\ trials' = trials /\ draws' = draws /\ journal' = journal
      /\ kept' = kept /\ leg' = leg
  BY <1>2 DEF Same, stored
<1>5. /\ queue \in Seq(Nat) /\ Len(queue) \in Nat \ {0} /\ q = queue[1] /\ q \in Nat
      /\ 1 \in DOMAIN queue
  BY DEF IInv, QueueOK
<1>6. /\ q < Top /\ Floor <= q /\ \A n \in DOMAIN trials : n < q
      /\ \A v \in Workers : pc[v] \in Busy => job[v].trial < q
  BY <1>1, <1>5 DEF IInv, QueueOK
<1>7. q \in Numbers
  BY <1>5, <1>6, TopFacts, RunAssumption DEF IInv, Flags, Numbers
<1>. HIDE DEF q
<1>8. /\ pc'[w] = "checking" /\ job'[w] = [trial |-> q, state |-> None]
      /\ \A v \in Workers \ {w} : pc'[v] = pc[v] /\ job'[v] = job[v]
      /\ pc' \in [Workers -> Busy \cup Idle] /\ job' \in [Workers -> {None} \cup Jobs]
  <2>1. [trial |-> q, state |-> None] \in Jobs
    BY <1>7 DEF Jobs
  <2>. QED BY <1>1, <2>1 DEF Busy
<1>9. Flags' /\ LockOK'
  BY <1>1, <1>2, <1>4, <1>8 DEF IInv, Flags, LockOK
<1>10. WorkOK'
  <2>1. ASSUME NEW v \in Workers \ {w} PROVE Fits(v)'
    BY <1>2, <1>3, <1>4, <1>8 DEF IInv, WorkOK, Fits
  <2>2. Fits(w)'
    <3>1. job'[w] \in [trial : Nat, state : {None} \cup States] /\ job'[w].trial = q
      BY <1>5, <1>8
    <3>2. lifecycle = "Running"
      BY <1>1 DEF IInv, PhaseOK
    <3>3. q \notin DOMAIN trials
      <4>1. q \in DOMAIN trials => q < q
        BY <1>6
      <4>. QED BY <1>5, <4>1
    <3>. QED BY <1>1, <1>2, <1>3, <1>4, <1>6, <1>8, <3>1, <3>2, <3>3 DEF Fits, Reserving
  <2>3. ASSUME NEW u \in Workers, NEW v \in Workers,
               pc'[u] \in Busy, pc'[v] \in Busy, job'[u].trial = job'[v].trial
        PROVE  u = v
    <3>1. \A x \in Workers \ {w} : pc[x] \in Busy => job[x].trial # q
      <4>1. q < q => FALSE
        BY <1>5
      <4>. QED BY <1>6, <4>1
    <3>2. CASE u # w /\ v # w
      BY <1>8, <2>3, <3>2 DEF IInv, WorkOK
    <3>. QED BY <1>8, <2>3, <3>1, <3>2
  <2>. QED BY <1>8, <2>1, <2>2, <2>3 DEF WorkOK
<1>11. QueueOK'
  <2>1. /\ queue' \in Seq(Nat) /\ Len(queue') = Len(queue) - 1
        /\ \A i \in DOMAIN queue' : i + 1 \in DOMAIN queue /\ queue'[i] = queue[i + 1]
    BY <1>1, <1>5
  <2>2. ASSUME NEW i \in DOMAIN queue'
        PROVE  i \in Nat /\ queue'[i] < Top /\ queue[1] < queue'[i] /\ queue'[i] \in Nat
    <3>1. i \in Nat \ {0} /\ i + 1 \in DOMAIN queue /\ queue'[i] = queue[i + 1]
      BY <2>1
    <3>. QED BY <1>5, <3>1 DEF IInv, QueueOK
  <2>3. \A i, j \in DOMAIN queue' : i < j => queue'[i] < queue'[j]
    BY <2>1, <2>2 DEF IInv, QueueOK
  <2>4. ASSUME NEW i \in DOMAIN queue'
        PROVE  /\ Floor <= queue'[i] /\ \A n \in DOMAIN trials : n < queue'[i]
               /\ \A v \in Workers : pc'[v] \in Busy => job'[v].trial < queue'[i]
    <3>1. /\ Floor <= queue'[i] /\ \A n \in DOMAIN trials : n < queue'[i]
          /\ \A v \in Workers : pc[v] \in Busy => job[v].trial < queue'[i]
      BY <1>1, <2>1 DEF IInv, QueueOK
    <3>2. q < queue'[i]
      BY <1>5, <2>2
    <3>. QED BY <1>8, <3>1, <3>2
  <2>. QED BY <1>3, <1>4, <2>1, <2>2, <2>3, <2>4 DEF QueueOK
<1>12. PhaseOK'
  <2>1. \A v \in Workers : pc[v] \in Reserving => v # w
    BY <1>1 DEF Reserving
  <2>. QED BY <1>1, <1>2, <1>4, <1>8, <2>1 DEF IInv, PhaseOK
<1>13. StudyOK' /\ AliveOK'
  BY <1>2, <1>3, <1>4 DEF IInv, StudyOK, IsHistory, States, AliveOK, Holds
<1>. QED BY <1>3, <1>9, <1>10, <1>11, <1>12, <1>13 DEF IInv

LEMMA ReserveStep ==
  ASSUME IInv, NEW w \in Workers, Reserve(w)
  PROVE  IInv'
<1>. DEFINE t == job[w].trial  running == [tag |-> "Running", draw |-> draws]
<1>1. /\ pc \in [Workers -> Busy \cup Idle] /\ job \in [Workers -> {None} \cup Jobs]
      /\ pc[w] = "admitted" /\ phase = "trials" /\ pc' = [pc EXCEPT ![w] = "starting"]
      /\ job' = [job EXCEPT ![w].state = running] /\ draws' = draws + 1
      /\ draws \in 0..SpaceSize /\ draws < SpaceSize /\ trials' = Recorded(t, running)
  BY DEF IInv, WorkOK, Flags, Reserve, Goto
<1>2. UNCHANGED <<phase, cause, leg, lifecycle, queue, reason, lock, journal, cursor, checkpoint, kept>>
  BY DEF Reserve, main, control, stored
<1>3. /\ Durable'
      /\ Saved' = Saved /\ SavedDraws' = SavedDraws /\ Floor' = Floor /\ Top' = Top
  <2>1. cursor' \in 0..Len(journal)
    BY <1>2 DEF IInv, Durable, StoreOK
  <2>. QED BY <1>2, <2>1, DurableKept DEF IInv
<1>4. /\ job[w] \in [trial : Nat, state : {None} \cup States] /\ t < Top /\ Floor <= t
      /\ lifecycle = "Running" /\ t \notin DOMAIN trials /\ t \in Nat
  BY <1>1 DEF IInv, WorkOK, Fits, Busy
<1>5. running \in States /\ running.draw = draws /\ running.tag = "Running"
  BY <1>1, RunAssumption DEF States, Draws
<1>6. job[w].trial \in Numbers
  BY <1>4, TopFacts, RunAssumption DEF IInv, Flags, Numbers
<1>7. /\ pc'[w] = "starting" /\ job'[w].trial = t /\ job'[w].state = running
      /\ job'[w] \in [trial : Nat, state : {None} \cup States]
      /\ \A v \in Workers \ {w} : pc'[v] = pc[v] /\ job'[v] = job[v]
      /\ pc' \in [Workers -> Busy \cup Idle] /\ job' \in [Workers -> {None} \cup Jobs]
  <2>1. job'[w] = [job[w] EXCEPT !.state = running]
    BY <1>1
  <2>2. /\ job'[w].trial = t /\ job'[w].state = running
        /\ job'[w] \in [trial : Nat, state : {None} \cup States]
    BY <1>4, <1>5, <2>1
  <2>3. job'[w] \in Jobs
    BY <1>6, <2>2 DEF Jobs
  <2>. QED BY <1>1, <2>2, <2>3 DEF Busy, Reserving
<1>8. /\ DOMAIN trials' = DOMAIN trials \cup {t} /\ trials'[t] = running
      /\ \A n \in DOMAIN trials : trials'[n] = trials[n]
      /\ trials' \in [DOMAIN trials' -> States]
  <2>1. /\ DOMAIN trials' = DOMAIN trials \cup {t} /\ trials'[t] = running
        /\ \A n \in DOMAIN trials : trials'[n] = trials[n]
    BY <1>1, <1>4 DEF Recorded
  <2>2. \A n \in DOMAIN trials' : trials'[n] \in States
    BY <1>5, <2>1 DEF IInv, StudyOK, IsHistory
  <2>. QED BY <1>1, <2>1, <2>2 DEF Recorded
<1>. HIDE DEF running, t
<1>9. Flags' /\ LockOK'
  BY <1>1, <1>2, <1>7, RunAssumption DEF IInv, Flags, LockOK
<1>10. WorkOK'
  <2>0. \A v \in Workers \ {w} : pc[v] \in Busy => job[v].trial # t
    BY <1>1 DEF IInv, WorkOK, Busy, t
  <2>1. ASSUME NEW v \in Workers \ {w} PROVE Fits(v)'
    <3>1. Fits(v) /\ pc'[v] = pc[v] /\ job'[v] = job[v]
      BY <1>7 DEF IInv, WorkOK
    <3>2. pc[v] \in {"checking", "admitted"} => job[v].trial \notin DOMAIN trials'
      BY <1>8, <2>0, <3>1 DEF Fits, Busy
    <3>3. pc[v] \in Reserving \cup {"recorded"} => job[v].trial \in DOMAIN trials'
      BY <1>8, <3>1 DEF Fits
    <3>4. pc[v] \in Reserving => trials'[job[v].trial] = trials[job[v].trial]
      BY <1>8, <3>1 DEF Fits
    <3>. QED BY <1>2, <1>3, <3>1, <3>2, <3>3, <3>4 DEF Fits
  <2>2. Fits(w)'
    <3>1. t \in DOMAIN trials' /\ SavedDraws <= draws
      BY <1>1, <1>8 DEF IInv, AliveOK
    <3>. QED BY <1>1, <1>2, <1>3, <1>4, <1>5, <1>7, <1>8, <3>1 DEF Fits
  <2>3. \A v \in Workers : pc'[v] \in Busy => pc[v] \in Busy /\ job'[v].trial = job[v].trial
    BY <1>1, <1>7 DEF Busy, Reserving, t
  <2>4. \A u, v \in Workers :
          pc'[u] \in Busy /\ pc'[v] \in Busy /\ job'[u].trial = job'[v].trial => u = v
    BY <2>3 DEF IInv, WorkOK
  <2>. QED BY <1>7, <2>1, <2>2, <2>4 DEF WorkOK
<1>11. QueueOK'
  <2>1. \A v \in Workers : pc'[v] \in Busy => pc[v] \in Busy /\ job'[v].trial = job[v].trial
    BY <1>1, <1>7 DEF Busy, Reserving, t
  <2>2. \A i \in DOMAIN queue : t < queue[i]
    BY <1>1 DEF IInv, QueueOK, Busy, t
  <2>. QED BY <1>2, <1>3, <1>8, <2>1, <2>2 DEF IInv, QueueOK
<1>12. PhaseOK'
  <2>1. ASSUME NEW n \in DOMAIN trials', trials'[n].tag = "Running"
        PROVE  \E v \in Workers : pc'[v] \in Reserving /\ job'[v].trial = n
    <3>1. CASE n = t
      BY <1>7, <3>1 DEF Reserving
    <3>2. CASE n # t
      <4>1. PICK v \in Workers : pc[v] \in Reserving /\ job[v].trial = n
        BY <1>1, <1>8, <2>1, <3>2 DEF IInv, PhaseOK
      <4>2. v # w
        BY <1>1, <4>1 DEF Reserving
      <4>. QED BY <1>7, <4>1, <4>2
    <3>. QED BY <3>1, <3>2
  <2>. QED BY <1>1, <1>2, <1>4, <2>1 DEF PhaseOK
<1>13. StudyOK'
  <2>0. StudyOK /\ Top \in Nat
    BY TopFacts, RunAssumption DEF IInv, Flags
  <2>1. IsHistory(trials)'
    BY <1>3, <1>4, <1>8, <2>0 DEF StudyOK, IsHistory, States
  <2>2. \A n \in DOMAIN trials : trials[n].draw < draws /\ trials[n].draw \in Nat
    BY <2>0, StateFacts DEF StudyOK, IsHistory
  <2>3. \A n \in DOMAIN trials' : trials'[n].draw < draws'
    BY <1>1, <1>5, <1>8, <2>2
  <2>4. \A n, k \in DOMAIN trials' : trials'[n].draw = trials'[k].draw => n = k
    BY <1>1, <1>5, <1>8, <2>0, <2>2 DEF StudyOK
  <2>. QED BY <2>1, <2>3, <2>4 DEF StudyOK
<1>14. AliveOK'
  <2>0. /\ AliveOK /\ phase # "down" /\ journal \in Seq(Records) /\ SavedDraws \in Nat
    BY <1>1 DEF IInv, Durable, StoreOK
  <2>1. \A i \in DOMAIN journal :
          /\ journal[i].trial \in DOMAIN trials'
          /\ trials'[journal[i].trial].draw = journal[i].state.draw
          /\ journal[i].draws <= draws'
    <3>1. \A i \in DOMAIN journal : journal[i].draws \in Nat
      <4>1. \A i \in DOMAIN journal : journal[i] \in Records
        BY <2>0
      <4>. QED BY <4>1 DEF Records
    <3>. QED BY <1>1, <1>8, <2>0, <3>1 DEF AliveOK
  <2>2. \A n \in DOMAIN trials' :
          trials'[n].tag \in {"Completed", "Failed"} => Holds(journal, n, trials'[n])
    BY <1>5, <1>8, <2>0 DEF AliveOK
  <2>3. \A n \in DOMAIN kept : n \in DOMAIN trials' /\ trials'[n] = kept[n]
    BY <1>8, <2>0 DEF AliveOK
  <2>4. SavedDraws <= draws'
    BY <1>1, <2>0 DEF AliveOK
  <2>. QED BY <1>2, <1>3, <2>1, <2>2, <2>3, <2>4 DEF AliveOK
<1>. QED BY <1>3, <1>9, <1>10, <1>11, <1>12, <1>13, <1>14 DEF IInv

-------------------------------------------------------------------------------
(* The run ends                                                             *)

LEMMA CompleteStep ==
  ASSUME IInv, Complete
  PROVE  IInv'
<1>1. /\ phase = "trials" /\ phase' = "completed" /\ lifecycle' = "Completed"
      /\ \A w \in Workers : pc[w] = "done"
      /\ UNCHANGED <<trials, queue, reason, draws, lock, pc, job, checkpoint, kept, cause, leg>>
      /\ UNCHANGED <<journal, cursor>>
  BY DEF Complete, To, control, stored
<1>2. /\ Durable'
      /\ Saved' = Saved /\ SavedDraws' = SavedDraws /\ Floor' = Floor /\ Top' = Top
  <2>1. cursor' \in 0..Len(journal)
    BY <1>1 DEF IInv, Durable, StoreOK
  <2>. QED BY <1>1, <2>1, DurableKept DEF IInv
<1>3. Flags' /\ LockOK'
  BY <1>1 DEF IInv, Flags, LockOK, Phases
<1>4. WorkOK'
  <2>1. \A w \in Workers : Fits(w)'
    BY <1>1 DEF Fits, Busy, Reserving
  <2>. QED BY <1>1, <2>1 DEF IInv, WorkOK
<1>5. QueueOK'
  BY <1>1, <1>2 DEF IInv, QueueOK
<1>6. PhaseOK'
  <2>1. NothingPending'
    BY <1>1 DEF IInv, PhaseOK, NothingPending, Reserving
  <2>. QED BY <1>1, <2>1 DEF PhaseOK
<1>7. StudyOK'
  BY <1>1, <1>2 DEF IInv, StudyOK, IsHistory, States
<1>8. AliveOK'
  BY <1>1, <1>2 DEF IInv, AliveOK, Holds
<1>. QED BY <1>2, <1>3, <1>4, <1>5, <1>6, <1>7, <1>8 DEF IInv

(* A checkpoint of a study with nothing pending.                            *)
LEMMA Saves ==
  ASSUME IInv, checkpoint' = Snapshot, phase \in {"announced", "persisting"},
         UNCHANGED <<lifecycle, trials, draws, queue, reason, lock, pc, job, journal, cursor, kept, leg>>,
         cause' \in {"Cancelled", "Failed"},
         \/ phase' = "ended"
         \/ phase = "announced" /\ phase' = "stopping"
  PROVE  IInv'
<1>1. /\ StudyOK /\ AliveOK /\ Durable /\ PhaseOK /\ draws \in 0..SpaceSize
      /\ NothingPending /\ \A w \in Workers : pc[w] \in {"done", "stopped"}
      /\ phase # "down" /\ Top \in Nat /\ RunAssumption
  BY TopFacts, RunAssumption DEF IInv, Flags, PhaseOK
<1>2. trials \in Histories
  BY <1>1, HistoryTypes DEF IInv, StudyOK
<1>3. Snapshot \in [trials : Histories, draws : 0..SpaceSize]
  BY <1>1, <1>2 DEF Snapshot
<1>4. checkpoint' # None
  BY <1>3, NoneAssumption
<1>5. Saved' = trials /\ SavedDraws' = draws /\ Top' = Top
  BY <1>4 DEF Saved, SavedDraws, Snapshot, Top
<1>6. Floor' \in 0..Top /\ \A n \in DOMAIN trials : n < Floor'
  <2>1. Floor' = NextNumber(trials)
    BY <1>5 DEF Floor
  <2>2. DOMAIN trials \subseteq 0..(Top - 1)
    BY <1>1 DEF StudyOK, IsHistory
  <2>. QED BY <1>1, <2>1, <2>2, Next1
<1>7. Flags' /\ LockOK'
  BY DEF IInv, Flags, LockOK, Phases
<1>8. WorkOK'
  <2>1. \A w \in Workers : Fits(w)'
    BY <1>1 DEF Fits, Busy, Reserving
  <2>. QED BY <2>1 DEF IInv, WorkOK
<1>9. QueueOK'
  BY <1>5 DEF IInv, QueueOK
<1>10. PhaseOK'
  <2>1. NothingPending'
    BY <1>1 DEF NothingPending
  <2>. QED BY <1>1, <2>1 DEF PhaseOK
<1>11. StudyOK'
  BY <1>1, <1>5 DEF StudyOK, IsHistory, States
<1>12. \A i \in DOMAIN journal :
         /\ journal[i].trial \in DOMAIN trials /\ journal[i].draws <= draws
         /\ trials[journal[i].trial].draw = journal[i].state.draw
         /\ journal[i].trial < Floor' /\ journal[i].trial \in Nat
  <2>1. \A i \in DOMAIN journal : journal[i] \in Records
    BY <1>1 DEF Durable, StoreOK
  <2>. QED BY <1>1, <1>6, <2>1 DEF AliveOK, Records
<1>13. AliveOK'
  <2>1. draws <= draws
    BY <1>1
  <2>. QED BY <1>1, <1>5, <2>1 DEF AliveOK, Holds
<1>14. Durable'
  <2>1. StoreOK'
    BY <1>1, <1>3, <1>5 DEF Durable, StoreOK, StudyOK, IsHistory, Records, Outcomes, States, Histories
  <2>2. JournalOK'
    BY <1>1 DEF Durable, JournalOK
  <2>3. KeptOK'
    BY <1>1, <1>5 DEF Durable, KeptOK, AliveOK, Holds, Outcomes
  <2>4. SavedOK'
    <3>1. \A n \in DOMAIN trials :
            /\ trials[n].tag # "Running" /\ trials[n].draw < draws
            /\ trials[n].tag \in {"Completed", "Failed"} => Holds(journal, n, trials[n])
      BY <1>1 DEF NothingPending, StudyOK, AliveOK
    <3>2. \A n, k \in DOMAIN trials : trials[n].draw = trials[k].draw => n = k
      BY <1>1 DEF StudyOK
    <3>3. \A i \in DOMAIN journal : ~(journal[i].trial >= Floor')
      BY <1>6, <1>12
    <3>. QED BY <1>5, <1>12, <3>1, <3>2, <3>3 DEF SavedOK
  <2>. QED BY <2>1, <2>2, <2>3, <2>4 DEF Durable
<1>. QED BY <1>7, <1>8, <1>9, <1>10, <1>11, <1>13, <1>14 DEF IInv

LEMMA Writes ==
  ASSUME IInv, WriteCompletion \/ (CompletionFails /\ checkpoint' # checkpoint) \/ Persist
  PROVE  IInv'
<1>1. UNCHANGED <<lifecycle, trials, draws, queue, reason, lock, pc, job, journal, cursor, kept, leg>>
  BY DEF WriteCompletion, CompletionFails, Persist, To, study, control, stored
<1>2. cause' \in {"Cancelled", "Failed"}
  BY DEF IInv, Flags, WriteCompletion, CompletionFails, Persist, To
<1>3. CASE Persist /\ checkpoint' = checkpoint
  <2>1. phase = "persisting" /\ phase' = "ended"
    BY <1>3 DEF Persist, To
  <2>2. /\ Durable'
        /\ Saved' = Saved /\ SavedDraws' = SavedDraws /\ Floor' = Floor /\ Top' = Top
    <3>1. cursor' \in 0..Len(journal)
      BY <1>1 DEF IInv, Durable, StoreOK
    <3>. QED BY <1>1, <1>3, <3>1, DurableKept DEF IInv
  <2>3. /\ \A w \in Workers : pc[w] \in {"done", "stopped"}
        /\ NothingPending
    BY <2>1 DEF IInv, PhaseOK
  <2>4. Flags' /\ LockOK'
    BY <1>1, <1>2, <2>1 DEF IInv, Flags, LockOK, Phases
  <2>5. WorkOK'
    <3>1. \A w \in Workers : Fits(w)'
      BY <1>1, <2>3 DEF Fits, Busy, Reserving
    <3>. QED BY <1>1, <3>1 DEF IInv, WorkOK
  <2>6. QueueOK'
    BY <1>1, <2>1, <2>2 DEF IInv, QueueOK
  <2>7. PhaseOK'
    BY <1>1, <2>1, <2>3 DEF PhaseOK, NothingPending
  <2>8. StudyOK'
    BY <1>1, <2>2 DEF IInv, StudyOK, IsHistory, States
  <2>9. AliveOK'
    BY <1>1, <2>1, <2>2 DEF IInv, AliveOK, Holds
  <2>. QED BY <2>2, <2>4, <2>5, <2>6, <2>7, <2>8, <2>9 DEF IInv
<1>4. CASE ~(Persist /\ checkpoint' = checkpoint)
  <2>1. /\ checkpoint' = Snapshot /\ phase \in {"announced", "persisting"}
        /\ phase' = "ended" \/ (phase = "announced" /\ phase' = "stopping")
    BY <1>4 DEF WriteCompletion, CompletionFails, Persist, To
  <2>. QED BY <1>1, <1>2, <2>1, Saves
<1>. QED BY <1>3, <1>4

(* What giving up the pending trials leaves as it was.                      *)
LEMMA GivenUpFacts ==
  ASSUME NEW h, h \in [DOMAIN h -> States]
  PROVE  /\ GivenUp(h) \in [DOMAIN h -> States] /\ DOMAIN GivenUp(h) = DOMAIN h
         /\ \A n \in DOMAIN h : /\ GivenUp(h)[n].draw = h[n].draw
                                /\ GivenUp(h)[n].tag # "Running"
                                /\ h[n].tag # "Running" => GivenUp(h)[n] = h[n]
                                /\ h[n].tag = "Running" => GivenUp(h)[n].tag = "Cancelled"
<1>1. ASSUME NEW n \in DOMAIN h
      PROVE  /\ GivenUp(h)[n] \in States /\ GivenUp(h)[n].draw = h[n].draw
             /\ GivenUp(h)[n].tag # "Running"
             /\ h[n].tag # "Running" => GivenUp(h)[n] = h[n]
             /\ h[n].tag = "Running" => GivenUp(h)[n].tag = "Cancelled"
  <2>1. h[n] \in States
    OBVIOUS
  <2>2. GivenUp(h)[n] = IF h[n].tag = "Running" THEN [h[n] EXCEPT !.tag = "Cancelled"] ELSE h[n]
    BY DEF GivenUp
  <2>3. CASE h[n].tag = "Running"
    BY <2>1, <2>2, <2>3 DEF States, OutcomeTags
  <2>. QED BY <2>1, <2>2, <2>3
<1>2. DOMAIN GivenUp(h) = DOMAIN h
  BY DEF GivenUp
<1>. QED BY <1>1, <1>2 DEF GivenUp

LEMMA RecordFailureStep ==
  ASSUME IInv, RecordFailure
  PROVE  IInv'
<1>1. /\ phase = "stopping" /\ phase' = "persisting" /\ trials' = GivenUp(trials)
      /\ \A w \in Workers : pc[w] \in {"done", "stopped"}
      /\ UNCHANGED <<queue, reason, draws, lock, pc, job, checkpoint, kept, cause, leg>>
      /\ UNCHANGED <<journal, cursor>> /\ lifecycle' = cause
  BY DEF RecordFailure, Stopped, To, control, stored
<1>2. /\ Durable'
      /\ Saved' = Saved /\ SavedDraws' = SavedDraws /\ Floor' = Floor /\ Top' = Top
  <2>1. cursor' \in 0..Len(journal)
    BY <1>1 DEF IInv, Durable, StoreOK
  <2>. QED BY <1>1, <2>1, DurableKept DEF IInv
<1>3. trials \in [DOMAIN trials -> States] /\ DOMAIN trials \subseteq 0..(Top - 1)
  BY DEF IInv, StudyOK, IsHistory
<1>4. /\ trials' \in [DOMAIN trials -> States] /\ DOMAIN trials' = DOMAIN trials
      /\ \A n \in DOMAIN trials : /\ trials'[n].draw = trials[n].draw
                                  /\ trials'[n].tag # "Running"
                                  /\ trials[n].tag # "Running" => trials'[n] = trials[n]
                                  /\ trials[n].tag = "Running" => trials'[n].tag = "Cancelled"
  BY <1>1, <1>3, GivenUpFacts
<1>5. Flags' /\ LockOK'
  BY <1>1 DEF IInv, Flags, LockOK, Phases
<1>6. WorkOK'
  <2>1. \A w \in Workers : Fits(w)'
    BY <1>1 DEF Fits, Busy, Reserving
  <2>. QED BY <1>1, <2>1 DEF IInv, WorkOK
<1>7. QueueOK'
  BY <1>1, <1>2 DEF IInv, QueueOK
<1>8. PhaseOK'
  <2>1. NothingPending'
    BY <1>4 DEF NothingPending
  <2>. QED BY <1>1, <2>1 DEF PhaseOK
<1>9. StudyOK'
  <2>1. IsHistory(trials)'
    BY <1>2, <1>3, <1>4 DEF IsHistory, States
  <2>. QED BY <1>1, <1>4, <2>1 DEF IInv, StudyOK
<1>10. AliveOK'
  <2>0. AliveOK /\ KeptOK
    BY DEF IInv, Durable
  <2>1. \A n \in DOMAIN trials' :
          trials'[n].tag \in {"Completed", "Failed"} => Holds(journal, n, trials'[n])
    BY <1>1, <1>4, <2>0 DEF AliveOK
  <2>2. \A n \in DOMAIN kept : n \in DOMAIN trials' /\ trials'[n] = kept[n]
    BY <1>1, <1>4, <2>0, StateFacts DEF AliveOK, KeptOK
  <2>. QED BY <1>1, <1>2, <1>4, <2>0, <2>1, <2>2 DEF AliveOK
<1>. QED BY <1>2, <1>5, <1>6, <1>7, <1>8, <1>9, <1>10 DEF IInv

LEMMA CrashStep ==
  ASSUME IInv, Crash
  PROVE  IInv'
<1>1. /\ phase' = "down" /\ cause' = cause /\ leg' = leg /\ lifecycle' = "Created"
      /\ trials' = << >> /\ draws' = 0 /\ queue' = << >>
      /\ lock' = None /\ reason' = None /\ cursor' = 0
      /\ pc' = [w \in Workers |-> "done"] /\ job' = [w \in Workers |-> None]
      /\ UNCHANGED <<checkpoint, kept>>
  BY DEF Crash, To
<1>2. Durable' /\ Top' = Top
  <2>1. CASE journal' = journal
    <3>1. cursor' \in 0..Len(journal)
      BY <1>1 DEF IInv, Durable, StoreOK
    <3>. QED BY <1>1, <2>1, <3>1, DurableKept DEF IInv
  <2>2. CASE journal' # journal
    <3>1. PICK w \in Workers : /\ pc[w] = "journaling" /\ AppendsAtTail(job[w].trial)
                               /\ journal' = Append(journal, Record(w))
      BY <2>2 DEF Crash
    <3>. QED BY <1>1, <3>1, Appended
  <2>. QED BY <2>1, <2>2
<1>3. Flags' /\ LockOK'
  BY <1>1, RunAssumption DEF IInv, Flags, LockOK, Phases
<1>4. WorkOK'
  <2>1. \A w \in Workers : Fits(w)'
    BY <1>1 DEF Fits, Busy, Reserving
  <2>2. pc' \in [Workers -> Busy \cup Idle] /\ job' \in [Workers -> {None} \cup Jobs]
    BY <1>1 DEF Idle
  <2>3. \A w \in Workers : pc'[w] \notin Busy
    BY <1>1 DEF Busy, Reserving
  <2>. QED BY <2>1, <2>2, <2>3 DEF WorkOK
<1>5. QueueOK' /\ PhaseOK'
  BY <1>1 DEF QueueOK, PhaseOK
<1>6. StudyOK' /\ AliveOK'
  BY <1>1 DEF StudyOK, IsHistory, AliveOK
<1>. QED BY <1>2, <1>3, <1>4, <1>5, <1>6 DEF IInv

-------------------------------------------------------------------------------
(* A leg begins                                                             *)

(* A history that numbers more trials continues later.                      *)
LEMMA NextMonotone ==
  ASSUME NEW g, NEW h, NEW b \in Nat, DOMAIN g \subseteq DOMAIN h, DOMAIN h \subseteq 0..(b - 1)
  PROVE  NextNumber(g) <= NextNumber(h)
<1>1. /\ NextNumber(h) \in Nat /\ \A n \in DOMAIN h : n < NextNumber(h)
  BY Next1
<1>2. CASE DOMAIN g = {}
  BY <1>1, <1>2 DEF NextNumber
<1>3. CASE DOMAIN g # {}
  <2>0. DOMAIN g \in SUBSET (0..b)
    OBVIOUS
  <2>1. \E m \in DOMAIN g : \A k \in DOMAIN g : k <= m
    BY <1>3, <2>0, MaxExists
  <2>. DEFINE m == CHOOSE n \in DOMAIN g : \A k \in DOMAIN g : k <= n
  <2>2. m \in DOMAIN g
    BY <2>1
  <2>3. NextNumber(g) = 1 + m
    BY <1>3 DEF NextNumber
  <2>4. m \in Nat /\ m < NextNumber(h)
    BY <1>1, <2>0, <2>2
  <2>. HIDE DEF m
  <2>. QED BY <1>1, <2>3, <2>4
<1>. QED BY <1>2, <1>3

LEMMA QueueFacts ==
  ASSUME RunAssumption, NEW first \in Nat
  PROVE  /\ TrialNumbers(first) \in Seq(Nat) /\ DOMAIN TrialNumbers(first) = 1..Trials
         /\ \A i \in 1..Trials : /\ TrialNumbers(first)[i] = first + i - 1
                                 /\ first <= TrialNumbers(first)[i]
                                 /\ TrialNumbers(first)[i] < first + Trials
         /\ \A i, j \in 1..Trials : i < j => TrialNumbers(first)[i] < TrialNumbers(first)[j]
<1>1. TrialNumbers(first) = [i \in 1..Trials |-> first + i - 1] /\ Trials \in Nat
  BY DEF TrialNumbers, RunAssumption
<1>2. \A i \in 1..Trials : first + i - 1 \in Nat
  BY <1>1
<1>3. TrialNumbers(first) \in [1..Trials -> Nat]
  BY <1>1, <1>2
<1>. QED BY <1>1, <1>3

(* What recovery finds: the checkpoint's trials and the journal's beyond    *)
(* it, none of them pending, and a sampler position past all of their draws.*)
LEMMA Recovery ==
  ASSUME RunAssumption, Flags, Durable, checkpoint # None
  PROVE  /\ IsHistory(RecoveredTrials) /\ DOMAIN Saved \subseteq DOMAIN RecoveredTrials
         /\ \A n \in DOMAIN Saved : RecoveredTrials[n] = Saved[n]
         /\ \A i \in DOMAIN journal : journal[i].trial >= Floor =>
              /\ journal[i].trial \in DOMAIN RecoveredTrials
              /\ RecoveredTrials[journal[i].trial] = journal[i].state
         /\ \A n \in DOMAIN RecoveredTrials :
              \/ n \in DOMAIN Saved
              \/ \E i \in DOMAIN journal : journal[i].trial >= Floor /\ journal[i].trial = n
<1>1. /\ checkpoint.trials = Saved /\ Floor = NextNumber(checkpoint.trials)
      /\ Replayed = {i \in DOMAIN journal : journal[i].trial >= Floor}
  BY DEF Saved, Floor, Replayed
<1>2. /\ \A i \in DOMAIN journal : journal[i] \in Records /\ journal[i].trial < Top
      /\ IsHistory(Saved) /\ Top \in Nat
      /\ \A i, j \in DOMAIN journal : journal[i].trial = journal[j].trial => i = j
  BY TopFacts DEF Flags, Durable, StoreOK, JournalOK
<1>3. Floor \in Nat /\ \A n \in DOMAIN Saved : n < Floor /\ n \in Nat
  <2>1. StoreOK
    BY DEF Durable
  <2>. QED BY <1>2, <2>1, FloorFacts DEF IsHistory
<1>4. DOMAIN RecoveredTrials = DOMAIN Saved \cup {journal[i].trial : i \in Replayed}
  BY <1>1 DEF RecoveredTrials
<1>5. ASSUME NEW n \in DOMAIN Saved
      PROVE  n \in DOMAIN RecoveredTrials /\ RecoveredTrials[n] = Saved[n]
  <2>1. ~\E i \in Replayed : journal[i].trial = n
    BY <1>1, <1>3
  <2>. QED BY <1>1, <1>4, <2>1 DEF RecoveredTrials
<1>6. ASSUME NEW i \in Replayed
      PROVE  /\ journal[i].trial \in DOMAIN RecoveredTrials
             /\ RecoveredTrials[journal[i].trial] = journal[i].state
  <2>. DEFINE c == CHOOSE j \in Replayed : journal[j].trial = journal[i].trial
  <2>1. c \in Replayed /\ journal[c].trial = journal[i].trial
    OBVIOUS
  <2>2. c = i
    BY <1>1, <1>2, <2>1
  <2>3. journal[i].trial \in DOMAIN RecoveredTrials
    BY <1>4
  <2>4. RecoveredTrials[journal[i].trial] = journal[c].state
    BY <1>1, <1>4, <2>3 DEF RecoveredTrials
  <2>. QED BY <2>2, <2>3, <2>4
<1>7. \A n \in DOMAIN RecoveredTrials :
        n \in DOMAIN Saved \/ \E i \in Replayed : journal[i].trial = n
  BY <1>4
<1>8. IsHistory(RecoveredTrials)
  <2>1. ASSUME NEW n \in DOMAIN RecoveredTrials
        PROVE  RecoveredTrials[n] \in States /\ n \in 0..(Top - 1)
    <3>1. CASE n \in DOMAIN Saved
      BY <1>2, <1>5, <3>1 DEF IsHistory
    <3>2. CASE \E i \in Replayed : journal[i].trial = n
      <4>1. PICK i \in Replayed : journal[i].trial = n
        BY <3>2
      <4>2. journal[i] \in Records /\ journal[i].trial < Top
        BY <1>1, <1>2
      <4>3. RecoveredTrials[n] \in Outcomes /\ n \in Nat
        BY <1>6, <4>1, <4>2 DEF Records
      <4>. QED BY <1>2, <4>1, <4>2, <4>3, StateFacts
    <3>. QED BY <1>7, <3>1, <3>2
  <2>2. RecoveredTrials \in [DOMAIN RecoveredTrials -> States]
    BY <2>1 DEF RecoveredTrials
  <2>. QED BY <2>1, <2>2 DEF IsHistory
<1>. QED BY <1>1, <1>5, <1>6, <1>7, <1>8

LEMMA RecoveryDraws ==
  ASSUME RunAssumption, Flags, Durable, checkpoint # None
  PROVE  /\ RecoveredDraws \in 0..SpaceSize /\ SavedDraws <= RecoveredDraws
         /\ \A i \in DOMAIN journal : journal[i].draws <= RecoveredDraws
<1>1. /\ checkpoint.trials = Saved /\ Floor = NextNumber(checkpoint.trials)
      /\ checkpoint.draws = SavedDraws
      /\ Replayed = {i \in DOMAIN journal : journal[i].trial >= Floor}
  BY DEF Saved, SavedDraws, Floor, Replayed
<1>2. /\ \A i \in DOMAIN journal : /\ journal[i].trial \in Nat /\ journal[i].draws \in 0..SpaceSize
                                   /\ journal[i].state.draw \in Nat
      /\ SavedDraws \in 0..SpaceSize /\ Floor \in Nat /\ DOMAIN journal = 1..Len(journal)
      /\ Len(journal) \in Nat /\ SpaceSize \in Nat
  <2>1. \A i \in DOMAIN journal : journal[i] \in Records
    BY DEF Durable, StoreOK
  <2>2. \A s \in Outcomes : s.draw \in Nat
    BY RunAssumption DEF Outcomes, Draws
  <2>3. StoreOK
    BY DEF Durable
  <2>. QED BY <2>1, <2>2, <2>3, FloorFacts DEF Records, StoreOK, RunAssumption
<1>3. \A i \in DOMAIN journal : journal[i].trial < Floor => journal[i].draws <= SavedDraws
  BY DEF Durable, SavedOK
<1>4. CASE Replayed = {}
  <2>1. RecoveredDraws = SavedDraws
    BY <1>1, <1>4 DEF RecoveredDraws
  <2>2. \A i \in DOMAIN journal : journal[i].trial < Floor
    BY <1>1, <1>2, <1>4
  <2>. QED BY <1>2, <1>3, <2>1, <2>2
<1>5. CASE Replayed # {}
  <2>. DEFINE last == CHOOSE i \in Replayed : \A k \in Replayed : k <= i
  <2>0. Replayed \in SUBSET (0..Len(journal))
    BY <1>1, <1>2
  <2>1. \E i \in Replayed : \A k \in Replayed : k <= i
    BY <1>2, <1>5, <2>0, MaxExists
  <2>2. last \in Replayed /\ \A k \in Replayed : k <= last
    BY <2>1
  <2>3. RecoveredDraws = journal[last].draws
    BY <1>5 DEF RecoveredDraws
  <2>. HIDE DEF last
  <2>4. /\ last \in DOMAIN journal /\ SavedDraws <= journal[last].state.draw
        /\ journal[last].state.draw < journal[last].draws
    BY <1>1, <2>2 DEF Durable, SavedOK, JournalOK
  <2>5. SavedDraws <= RecoveredDraws /\ RecoveredDraws \in 0..SpaceSize
    BY <1>2, <2>3, <2>4
  <2>6. ASSUME NEW i \in DOMAIN journal PROVE journal[i].draws <= RecoveredDraws
    <3>1. CASE i \in Replayed
      <4>1. i < last \/ i = last
        BY <1>2, <2>2, <2>4, <3>1
      <4>2. i < last => journal[i].draws <= journal[last].draws
        BY <2>4 DEF Durable, JournalOK
      <4>. QED BY <1>2, <2>3, <2>4, <4>1, <4>2
    <3>2. CASE i \notin Replayed
      <4>1. journal[i].trial < Floor
        BY <1>1, <1>2, <3>2
      <4>. QED BY <1>2, <1>3, <2>5, <4>1
    <3>. QED BY <3>1, <3>2
  <2>. QED BY <2>5, <2>6
<1>. QED BY <1>4, <1>5

LEMMA ResumeStep ==
  ASSUME IInv, Resume
  PROVE  IInv'
<1>. DEFINE R == RecoveredTrials  first == NextNumber(R)
<1>1. /\ checkpoint # None /\ leg < MaxLegs /\ leg' = leg + 1 /\ phase' = "trials"
      /\ cause' = "Cancelled" /\ lifecycle' = "Running" /\ trials' = GivenUp(R)
      /\ draws' = RecoveredDraws /\ queue' = TrialNumbers(first)
      /\ lock' = None /\ reason' = None
      /\ pc' = [w \in Workers |-> "polling"] /\ job' = [w \in Workers |-> None]
      /\ cursor' = Len(journal) /\ UNCHANGED <<journal, checkpoint, kept>>
  BY DEF Resume, Recoverable
<1>2. /\ Flags /\ Durable /\ Top \in Nat /\ leg \in Nat /\ Trials \in Nat /\ MaxLegs \in Nat
      /\ Top' = Top + Trials
  BY <1>1, TopFacts, TopGrows, RunAssumption DEF IInv, Flags, RunAssumption
<1>3. Saved' = Saved /\ SavedDraws' = SavedDraws /\ Floor' = Floor
  <2>1. Saved' = Saved /\ SavedDraws' = SavedDraws
    BY <1>1 DEF Saved, SavedDraws
  <2>. QED BY <2>1 DEF Floor
<1>4. /\ IsHistory(R) /\ DOMAIN Saved \subseteq DOMAIN R
      /\ \A n \in DOMAIN Saved : R[n] = Saved[n]
      /\ \A i \in DOMAIN journal : journal[i].trial >= Floor =>
           journal[i].trial \in DOMAIN R /\ R[journal[i].trial] = journal[i].state
      /\ \A n \in DOMAIN R :
           \/ n \in DOMAIN Saved
           \/ \E i \in DOMAIN journal : journal[i].trial >= Floor /\ journal[i].trial = n
  BY <1>1, <1>2, Recovery, RunAssumption
<1>5. /\ RecoveredDraws \in 0..SpaceSize /\ SavedDraws <= RecoveredDraws
      /\ \A i \in DOMAIN journal : journal[i].draws <= RecoveredDraws
  BY <1>1, <1>2, RecoveryDraws, RunAssumption
<1>6. /\ first \in 0..Top /\ Floor <= first /\ \A n \in DOMAIN R : n < first
  <2>1. DOMAIN R \subseteq 0..(Top - 1)
    BY <1>4 DEF IsHistory
  <2>. QED BY <1>2, <1>4, <2>1, Next1, NextMonotone DEF Floor
<1>7. \A i \in DOMAIN journal :
        /\ journal[i].trial \in Nat /\ journal[i].state \in Outcomes
        /\ journal[i].draws \in Nat /\ journal[i].state.draw \in Nat
        /\ journal[i].state.draw < journal[i].draws
  <2>1. \A i \in DOMAIN journal : journal[i] \in Records
    BY <1>2 DEF Durable, StoreOK
  <2>2. \A s \in Outcomes : s.draw \in Nat
    BY RunAssumption DEF Outcomes, Draws, RunAssumption
  <2>. QED BY <1>2, <2>1, <2>2, RunAssumption DEF Records, Durable, JournalOK, RunAssumption
<1>. HIDE DEF R, first
<1>8. \A n \in DOMAIN R : R[n].tag # "Running"
  BY <1>2, <1>4, <1>7, StateFacts DEF Durable, SavedOK
<1>9. DOMAIN trials' = DOMAIN R /\ \A n \in DOMAIN R : trials'[n] = R[n]
  BY <1>1, <1>4, <1>8, GivenUpFacts DEF IsHistory
<1>10. trials' \in [DOMAIN trials' -> States]
  BY <1>1, <1>4, GivenUpFacts DEF IsHistory
<1>11. Floor \in Nat /\ SavedDraws \in Nat
  <2>1. StoreOK
    BY <1>2 DEF Durable
  <2>. QED BY <1>2, <2>1, FloorFacts, RunAssumption DEF StoreOK
<1>12. Durable'
  <2>1. StoreOK'
    <3>1. journal' \in Seq(Records') /\ cursor' \in 0..Len(journal')
      BY <1>1, <1>2 DEF Durable, StoreOK, Records, Outcomes
    <3>2. \A i \in DOMAIN journal' : journal'[i].trial < Top'
      BY <1>1, <1>2, <1>7 DEF Durable, StoreOK
    <3>3. checkpoint' = None \/ checkpoint' \in [trials : Histories, draws : 0..SpaceSize]
      BY <1>1, <1>2 DEF Durable, StoreOK
    <3>4. IsHistory(Saved)' /\ SavedDraws' \in 0..SpaceSize
      <4>1. IsHistory(Saved) /\ SavedDraws \in 0..SpaceSize
        BY <1>2 DEF Durable, StoreOK
      <4>2. 0..(Top - 1) \subseteq 0..(Top' - 1)
        BY <1>2
      <4>. QED BY <1>3, <4>1, <4>2 DEF IsHistory, States
    <3>. QED BY <3>1, <3>2, <3>3, <3>4 DEF StoreOK, Histories
  <2>2. JournalOK' /\ KeptOK' /\ SavedOK'
    BY <1>1, <1>2, <1>3 DEF Durable, JournalOK, KeptOK, SavedOK, Holds, Outcomes
  <2>. QED BY <2>1, <2>2 DEF Durable
<1>13. Flags' /\ LockOK'
  BY <1>1, <1>2, <1>5, RunAssumption DEF Flags, LockOK, Phases
<1>14. WorkOK'
  <2>1. \A w \in Workers : pc'[w] \notin Busy
    BY <1>1 DEF Busy, Reserving
  <2>2. \A w \in Workers : Fits(w)'
    BY <2>1 DEF Fits, Busy, Reserving
  <2>3. pc' \in [Workers -> Busy \cup Idle] /\ job' \in [Workers -> {None} \cup Jobs]
    BY <1>1 DEF Idle
  <2>. QED BY <2>1, <2>2, <2>3 DEF WorkOK
<1>15. QueueOK'
  <2>1. /\ queue' \in Seq(Nat) /\ DOMAIN queue' = 1..Trials
        /\ \A i \in 1..Trials : /\ first <= queue'[i] /\ queue'[i] < first + Trials
                                /\ queue'[i] = first + i - 1
        /\ \A i, j \in 1..Trials : i < j => queue'[i] < queue'[j]
    <3>1. first \in Nat
      BY <1>2, <1>6
    <3>2. /\ TrialNumbers(first) \in Seq(Nat) /\ DOMAIN TrialNumbers(first) = 1..Trials
          /\ \A i \in 1..Trials : /\ TrialNumbers(first)[i] = first + i - 1
                                  /\ first <= TrialNumbers(first)[i]
                                  /\ TrialNumbers(first)[i] < first + Trials
          /\ \A i, j \in 1..Trials : i < j => TrialNumbers(first)[i] < TrialNumbers(first)[j]
      BY <3>1, QueueFacts, RunAssumption
    <3>. QED BY <1>1, <3>2
  <2>2. \A n \in DOMAIN R : n \in Nat
    BY <1>4 DEF IsHistory
  <2>3. ASSUME NEW i \in 1..Trials
        PROVE  queue'[i] < Top' /\ Floor <= queue'[i] /\ \A n \in DOMAIN R : n < queue'[i]
    BY <1>2, <1>6, <1>11, <2>1, <2>2
  <2>4. \A w \in Workers : pc'[w] \notin Busy
    BY <1>1 DEF Busy, Reserving
  <2>. QED BY <1>3, <1>9, <2>1, <2>3, <2>4 DEF QueueOK
<1>16. PhaseOK'
  BY <1>1, <1>8, <1>9 DEF PhaseOK
<1>17. StudyOK'
  <2>1. IsHistory(trials)'
    <3>1. DOMAIN trials' \subseteq 0..(Top' - 1)
      BY <1>2, <1>4, <1>9 DEF IsHistory
    <3>. QED BY <1>10, <3>1 DEF IsHistory, States
  <2>2. \A n \in DOMAIN Saved : R[n].draw < SavedDraws /\ R[n].draw \in Nat
    <3>1. \A n \in DOMAIN R : R[n] \in States
      BY <1>4 DEF IsHistory
    <3>2. \A n \in DOMAIN R : R[n].draw \in Nat
      BY <3>1, StateFacts
    <3>. QED BY <1>2, <1>4, <3>2 DEF Durable, SavedOK
  <2>3. \A i \in DOMAIN journal : journal[i].trial >= Floor =>
          /\ R[journal[i].trial].draw = journal[i].state.draw
          /\ SavedDraws <= journal[i].state.draw
    BY <1>2, <1>4 DEF Durable, SavedOK
  <2>4. ASSUME NEW n \in DOMAIN R PROVE R[n].draw < RecoveredDraws
    <3>1. CASE n \in DOMAIN Saved
      BY <1>5, <1>11, <2>2, <3>1
    <3>2. CASE \E i \in DOMAIN journal : journal[i].trial >= Floor /\ journal[i].trial = n
      BY <1>5, <1>7, <2>3, <3>2
    <3>. QED BY <1>4, <3>1, <3>2
  <2>5. ASSUME NEW n \in DOMAIN R, NEW k \in DOMAIN R, R[n].draw = R[k].draw
        PROVE  n = k
    <3>1. CASE n \in DOMAIN Saved /\ k \in DOMAIN Saved
      BY <1>2, <1>4, <2>5, <3>1 DEF Durable, SavedOK
    <3>2. ASSUME NEW x \in DOMAIN Saved, NEW y \in DOMAIN R, y \notin DOMAIN Saved
          PROVE  R[x].draw # R[y].draw
      <4>1. PICK i \in DOMAIN journal : journal[i].trial >= Floor /\ journal[i].trial = y
        BY <1>4, <3>2
      <4>2. R[x].draw < SavedDraws /\ SavedDraws <= R[y].draw /\ R[y].draw \in Nat
        BY <1>7, <2>2, <2>3, <4>1
      <4>. QED BY <1>11, <2>2, <4>2
    <3>3. CASE n \notin DOMAIN Saved /\ k \notin DOMAIN Saved
      <4>1. PICK i \in DOMAIN journal : journal[i].trial >= Floor /\ journal[i].trial = n
        BY <1>4, <3>3
      <4>2. PICK j \in DOMAIN journal : journal[j].trial >= Floor /\ journal[j].trial = k
        BY <1>4, <3>3
      <4>3. journal[i].state.draw = journal[j].state.draw
        BY <2>3, <2>5, <4>1, <4>2
      <4>4. i = j
        BY <1>2, <4>3 DEF Durable, JournalOK
      <4>. QED BY <4>1, <4>2, <4>4
    <3>. QED BY <2>5, <3>1, <3>2, <3>3
  <2>. QED BY <1>1, <1>9, <2>1, <2>4, <2>5 DEF StudyOK
<1>18. AliveOK'
  <2>0. \A i \in DOMAIN journal : journal[i].trial < Floor \/ journal[i].trial >= Floor
    BY <1>7, <1>11
  <2>1. \A i \in DOMAIN journal : journal[i].trial \in DOMAIN R /\ R[journal[i].trial].draw = journal[i].state.draw
    BY <1>2, <1>4, <2>0 DEF Durable, SavedOK
  <2>2. \A n \in DOMAIN R : R[n].tag \in {"Completed", "Failed"} => Holds(journal, n, R[n])
    <3>1. ASSUME NEW n \in DOMAIN R, R[n].tag \in {"Completed", "Failed"}
          PROVE  Holds(journal, n, R[n])
      <4>1. CASE n \in DOMAIN Saved
        BY <1>2, <1>4, <3>1, <4>1 DEF Durable, SavedOK
      <4>2. CASE \E i \in DOMAIN journal : journal[i].trial >= Floor /\ journal[i].trial = n
        BY <1>4, <4>2 DEF Holds
      <4>. QED BY <1>4, <4>1, <4>2
    <3>. QED BY <3>1
  <2>3. ASSUME NEW n \in DOMAIN kept PROVE n \in DOMAIN R /\ R[n] = kept[n]
    <3>1. /\ n \in Nat /\ Holds(journal, n, kept[n])
          /\ n < Floor => n \in DOMAIN Saved /\ Saved[n] = kept[n]
      BY <1>2 DEF Durable, KeptOK
    <3>2. CASE n < Floor
      BY <1>4, <3>1, <3>2
    <3>3. CASE n >= Floor
      BY <1>4, <3>1, <3>3 DEF Holds
    <3>. QED BY <1>11, <3>1, <3>2, <3>3
  <2>. QED BY <1>1, <1>3, <1>5, <1>9, <2>1, <2>2, <2>3 DEF AliveOK
<1>. QED BY <1>12, <1>13, <1>14, <1>15, <1>16, <1>17, <1>18 DEF IInv

LEMMA InitHolds ==
  ASSUME Init
  PROVE  IInv
<1>1. /\ phase = "trials" /\ cause = "Cancelled" /\ lifecycle = "Running" /\ trials = << >>
      /\ draws = 0 /\ queue = TrialNumbers(0) /\ lock = None /\ reason = None
      /\ pc = [w \in Workers |-> "polling"] /\ job = [w \in Workers |-> None]
      /\ journal = << >> /\ cursor = 0 /\ checkpoint \in {None, Snapshot} /\ kept = << >> /\ leg = 1
  BY DEF Init
<1>2. /\ Trials \in Nat /\ MaxLegs \in Nat \ {0} /\ SpaceSize \in Nat /\ Top = Trials
  BY <1>1, RunAssumption DEF RunAssumption, Top
<1>3. Flags /\ LockOK
  BY <1>1, <1>2, RunAssumption DEF Flags, LockOK, Phases, RunAssumption
<1>4. DOMAIN trials = {} /\ trials \in [{} -> States] /\ IsHistory(trials)
  BY <1>1 DEF IsHistory
<1>5. /\ Snapshot \in [trials : Histories, draws : 0..SpaceSize]
      /\ Saved = << >> /\ SavedDraws = 0 /\ Floor = 0
  <2>1. trials \in Histories
    BY <1>3, <1>4, HistoryTypes, RunAssumption
  <2>2. Snapshot \in [trials : Histories, draws : 0..SpaceSize]
    BY <1>1, <1>2, <2>1 DEF Snapshot
  <2>3. Saved = << >> /\ SavedDraws = 0
    BY <1>1, <2>2, NoneAssumption DEF Saved, SavedDraws, Snapshot
  <2>. QED BY <2>2, <2>3 DEF Floor, NextNumber
<1>6. WorkOK
  <2>1. \A w \in Workers : pc[w] \notin Busy /\ Fits(w)
    BY <1>1 DEF Fits, Busy, Reserving
  <2>2. pc \in [Workers -> Busy \cup Idle] /\ job \in [Workers -> {None} \cup Jobs]
    BY <1>1 DEF Idle
  <2>. QED BY <2>1, <2>2 DEF WorkOK
<1>7. QueueOK
  <2>1. /\ queue \in Seq(Nat) /\ DOMAIN queue = 1..Trials
        /\ \A i \in 1..Trials : 0 <= queue[i] /\ queue[i] < Trials
        /\ \A i, j \in 1..Trials : i < j => queue[i] < queue[j]
    <3>1. /\ TrialNumbers(0) \in Seq(Nat) /\ DOMAIN TrialNumbers(0) = 1..Trials
          /\ \A i \in 1..Trials : /\ TrialNumbers(0)[i] = 0 + i - 1
                                  /\ 0 <= TrialNumbers(0)[i]
                                  /\ TrialNumbers(0)[i] < 0 + Trials
          /\ \A i, j \in 1..Trials : i < j => TrialNumbers(0)[i] < TrialNumbers(0)[j]
      BY QueueFacts, RunAssumption
    <3>. QED BY <1>1, <1>2, <3>1
  <2>2. \A w \in Workers : pc[w] \notin Busy
    BY <1>1 DEF Busy, Reserving
  <2>. QED BY <1>2, <1>4, <1>5, <2>1, <2>2 DEF QueueOK
<1>8. PhaseOK /\ StudyOK
  BY <1>1, <1>4 DEF PhaseOK, StudyOK
<1>9. AliveOK /\ JournalOK /\ KeptOK /\ SavedOK
  BY <1>1, <1>2, <1>4, <1>5 DEF AliveOK, JournalOK, KeptOK, SavedOK
<1>10. StoreOK
  <2>1. IsHistory(Saved) /\ SavedDraws \in 0..SpaceSize
    BY <1>1, <1>2, <1>4, <1>5
  <2>2. journal \in Seq(Records) /\ cursor \in 0..Len(journal)
    BY <1>1
  <2>3. DOMAIN journal = {}
    BY <1>1
  <2>4. checkpoint = None \/ checkpoint \in [trials : Histories, draws : 0..SpaceSize]
    BY <1>1, <1>5
  <2>. QED BY <2>1, <2>2, <2>3, <2>4 DEF StoreOK
<1>. QED BY <1>3, <1>6, <1>7, <1>8, <1>9, <1>10 DEF IInv, Durable

LEMMA NextPreserves == ASSUME IInv, [Next]_vars PROVE IInv'
<1>1. CASE UNCHANGED vars
  <2>1. /\ Same /\ phase' = phase
        /\ UNCHANGED <<phase, cause, queue, reason, lock, pc, job>>
    BY <1>1 DEF vars, Same, stored
  <2>2. Flags' /\ LockOK' /\ \A w \in Workers : Moves(w)
    BY <2>1 DEF IInv, Flags, LockOK, Same, Moves
  <2>3. pc' \in [Workers -> Busy \cup Idle] /\ job' \in [Workers -> {None} \cup Jobs]
    BY <2>1 DEF IInv, WorkOK
  <2>4. CASE phase # "down"
    BY <2>1, <2>2, <2>3, <2>4, Calm DEF PhaseMoves
  <2>5. CASE phase = "down"
    <3>1. /\ Durable' /\ Saved' = Saved /\ SavedDraws' = SavedDraws /\ Floor' = Floor /\ Top' = Top
      BY <2>1, DurableSame DEF IInv
    <3>2. WorkOK'
      <4>1. \A w \in Workers : pc'[w] \notin Busy /\ Fits(w)'
        BY <2>1, <2>5 DEF IInv, PhaseOK, Fits, Busy, Reserving
      <4>. QED BY <2>3, <4>1 DEF WorkOK
    <3>3. QueueOK' /\ PhaseOK' /\ StudyOK' /\ AliveOK'
      BY <2>1, <2>5, <3>1 DEF IInv, QueueOK, PhaseOK, StudyOK, AliveOK, IsHistory, States, Same,
           NothingPending
    <3>. QED BY <2>2, <3>1, <3>2, <3>3 DEF IInv
  <2>. QED BY <2>4, <2>5
<1>2. ASSUME NEW w \in Workers, Work(w) PROVE IInv'
  BY <1>2, WorkerSteps, EvaluateStep, EnterRecordStep, JournalFailsUnwritten, JournalFailsWritten,
     JournaledStep, PollTakes, ReserveStep DEF Work, RecordTrial
<1>3. CASE Main
  BY <1>3, MainSteps, CompleteStep, Writes, RecordFailureStep DEF Main
<1>4. CASE (\E w \in Workers : RequestStop(w)) \/ DurationElapses \/ Interrupt
  BY <1>4, MainSteps
<1>. QED BY <1>1, <1>2, <1>3, <1>4, CrashStep, ResumeStep DEF Next

-------------------------------------------------------------------------------
(* Theorems                                                                 *)

(* The invariant holds of every behaviour, whatever crashes and resumes.    *)
THEOREM InvariantHolds == Spec => []IInv
<1>1. Init => IInv
  BY InitHolds
<1>2. IInv /\ [Next]_vars => IInv'
  BY NextPreserves
<1>. QED BY <1>1, <1>2, PTL DEF Spec

LEMMA Narrowed ==
  ASSUME NEW S, NEW T, NEW s \in Seq(S), \A i \in DOMAIN s : s[i] \in T
  PROVE  s \in Seq(T)
OBVIOUS

LEMMA TypesImply == ASSUME IInv, stop \in BOOLEAN PROVE TypeOK
<1>1. /\ Top \in Nat /\ Top <= Trials * MaxLegs /\ Trials * MaxLegs \in Nat
      /\ Flags /\ LockOK /\ WorkOK /\ QueueOK /\ StudyOK /\ Durable
  BY TopFacts, RunAssumption DEF IInv, Flags
<1>2. \A n \in Nat : n < Top => n \in Numbers
  BY <1>1 DEF Numbers
<1>3. trials \in Histories
  BY <1>1, HistoryTypes, RunAssumption DEF StudyOK
<1>4. queue \in Seq(Numbers)
  <2>1. /\ \A i \in DOMAIN queue : queue[i] \in Numbers
        /\ queue \in Seq(Nat)
    BY <1>1, <1>2 DEF QueueOK
  <2>. QED BY <2>1
<1>5. journal \in Seq([trial : Numbers, state : Outcomes, draws : 0..SpaceSize])
  <2>1. journal \in Seq(Records) /\ \A i \in DOMAIN journal : journal[i].trial < Top
    BY <1>1 DEF Durable, StoreOK
  <2>2. \A i \in DOMAIN journal :
          journal[i] \in [trial : Numbers, state : Outcomes, draws : 0..SpaceSize]
    <3>1. ASSUME NEW i \in DOMAIN journal PROVE journal[i] \in Records /\ journal[i].trial < Top
      BY <2>1
    <3>. QED BY <1>2, <3>1 DEF Records
  <2>. QED BY <2>1, <2>2, Narrowed
<1>6. ASSUME NEW w \in Workers PROVE JobFits(w)
  <2>1. Fits(w)
    BY <1>1 DEF WorkOK
  <2>2. pc[w] \in Busy => job[w] # None
    <3>1. ASSUME pc[w] \in Busy PROVE job[w] \in Jobs
      <4>1. job[w] \in [trial : Nat, state : {None} \cup States] /\ job[w].trial \in Numbers
        BY <1>2, <2>1, <3>1 DEF Fits
      <4>. QED BY <4>1 DEF Jobs
    <3>. QED BY <3>1, NoneAssumption
  <2>3. ASSUME pc[w] \in {"starting", "evaluating"}
        PROVE  trials[job[w].trial] = job[w].state /\ job[w].state.tag = "Running"
    <3>1. /\ job[w].trial \in DOMAIN trials /\ job[w].state \in States
          /\ trials[job[w].trial].tag = "Running" /\ job[w].state.tag = "Running"
          /\ trials[job[w].trial].draw = job[w].state.draw
      BY <2>1, <2>3 DEF Fits, Reserving
    <3>2. trials[job[w].trial] \in States
      BY <1>1, <3>1 DEF StudyOK, IsHistory
    <3>. QED BY <3>1, <3>2 DEF States
  <2>4. pc[w] \in {"finished", "journaling"} =>
          trials[job[w].trial].tag = "Running" /\ job[w].state \in Outcomes
    BY <2>1 DEF Fits, Reserving
  <2>. QED BY <2>2, <2>3, <2>4 DEF JobFits, Busy, Reserving
<1>7. pc \in [Workers ->
        {"polling", "checking", "admitted", "starting", "evaluating", "finished",
         "journaling", "recorded", "done", "stopped"}]
  BY <1>1 DEF WorkOK, Busy, Idle, Reserving
<1>8. \A n \in DOMAIN kept : kept[n] \in Outcomes
  BY <1>1 DEF Durable, KeptOK
<1>9. /\ job \in [Workers -> {None} \cup Jobs] /\ cursor \in 0..Len(journal)
      /\ checkpoint = None \/ checkpoint \in [trials : Histories, draws : 0..SpaceSize]
  BY <1>1 DEF WorkOK, Durable, StoreOK
<1>10. /\ phase \in Phases /\ cause \in {"Cancelled", "Failed"}
       /\ lifecycle \in {"Created", "Running", "Completed", "Cancelled", "Failed"}
       /\ draws \in 0..SpaceSize /\ leg \in 1..MaxLegs /\ reason \in Reasons \cup {None}
       /\ lock \in Workers \cup {None}
       /\ \A w \in Workers : (lock = w) <=> (pc[w] = "journaling")
  BY <1>1 DEF Flags, LockOK
<1>. QED BY <1>3, <1>4, <1>5, <1>6, <1>7, <1>8, <1>9, <1>10 DEF TypeOK

(* The variables keep their types; the semaphore of the study is held       *)
(* exactly while its holder waits for the journal; a worker finds its trial *)
(* as it left it (trial.ts, recording.ts).                                  *)
THEOREM TypesHold == Spec => []TypeOK
<1>1. Init => stop \in BOOLEAN
  BY DEF Init
<1>2. stop \in BOOLEAN /\ [Next]_vars => (stop \in BOOLEAN)'
  BY DEF Next, Work, Main, RecordTrial, Poll, Admit, Reserve, SpaceExhausted, Start, RequestStop,
     Evaluate, EnterRecord, Journaled, JournalFails, Account, Fails, Stop, DurationElapses,
     Complete, Announce, WriteCompletion, CompletionFails, Interrupt, RecordFailure, DieRecording,
     Persist, Crash, Resume, control, vars
<1>3. IInv /\ stop \in BOOLEAN => TypeOK
  BY TypesImply
<1>. QED BY <1>1, <1>2, <1>3, InvariantHolds, PTL DEF Spec

(* What the study has recorded is in the history of every later leg, as it  *)
(* was: the record was journaled first, and the checkpoint that numbers its *)
(* trial holds it (recording.ts, recovery.ts).                              *)
THEOREM OutcomesStayKept == Spec => []OutcomesKept
<1>1. IInv => OutcomesKept
  BY DEF IInv, AliveOK, OutcomesKept
<1>. QED BY <1>1, InvariantHolds, PTL

(* The sampler resumes past every configuration that an outcome came from,  *)
(* and no two outcomes came from the same draw (recovery.ts).               *)
THEOREM DrawsStayNew == Spec => []DrawsNotRepeated
<1>1. IInv => DrawsNotRepeated
  BY DEF IInv, StudyOK, DrawsNotRepeated
<1>. QED BY <1>1, InvariantHolds, PTL

(* Every checkpoint that was written can be resumed from, whatever the      *)
(* journal has gained since (runtime.ts, recovery.ts).                      *)
THEOREM CheckpointsStaySound == Spec => []CheckpointSound
<1>1. ASSUME IInv PROVE CheckpointSound
  <2>1. CASE checkpoint # None
    <3>1. Saved = checkpoint.trials /\ SavedDraws = checkpoint.draws /\ SavedOK /\ JournalOK
      BY <1>1, <2>1 DEF Saved, SavedDraws, IInv, Durable
    <3>2. Recoverable
      BY <2>1, <3>1 DEF Recoverable, JournalOK, Replayed
    <3>3. \A n \in DOMAIN checkpoint.trials :
            LET s == checkpoint.trials[n] IN
            /\ s.tag # "Running" /\ s.draw < checkpoint.draws
            /\ s.tag \in {"Completed", "Failed"} =>
                 \E i \in DOMAIN journal : journal[i].trial = n /\ journal[i].state = s
      BY <3>1 DEF SavedOK, Holds
    <3>. QED BY <3>2, <3>3 DEF CheckpointSound
  <2>. QED BY <2>1 DEF CheckpointSound
<1>. QED BY <1>1, InvariantHolds, PTL

LEMMA ReserveLedger ==
  ASSUME IInv, NEW w \in Workers, Reserve(w)
  PROVE  Ledger!Next
<1>. DEFINE tags == [n \in DOMAIN trials |-> trials[n].tag]
<1>0. PICK t : t = job[w].trial
  OBVIOUS
<1>1. /\ pc[w] = "admitted" /\ lifecycle' = lifecycle
      /\ trials' = Recorded(t, [tag |-> "Running", draw |-> draws])
  BY <1>0 DEF Reserve
<1>2. /\ lifecycle = "Running" /\ t \notin DOMAIN trials /\ t \in Nat /\ t < Top
  BY <1>0, <1>1 DEF IInv, WorkOK, Fits, Busy
<1>3. t \in 0..(Trials * MaxLegs - 1)
  BY <1>2, TopFacts, RunAssumption DEF IInv, Flags
<1>4. [n \in DOMAIN trials' |-> trials'[n].tag]
        = [k \in DOMAIN tags \cup {t} |-> IF k = t THEN "Running" ELSE tags[k]]
  BY <1>1 DEF Recorded
<1>5. Ledger!Reserve(t)
  BY <1>1, <1>2, <1>4 DEF Ledger!Reserve, Ledger!With
<1>. QED BY <1>3, <1>5 DEF Ledger!Next

LEMMA JournaledLedger ==
  ASSUME IInv, NEW w \in Workers, Journaled(w)
  PROVE  Ledger!Next
<1>. DEFINE tags == [n \in DOMAIN trials |-> trials[n].tag]
<1>0. PICK t, s : t = job[w].trial /\ s = job[w].state
  OBVIOUS
<1>1. pc[w] = "journaling" /\ lifecycle' = lifecycle /\ trials' = Recorded(t, s)
  BY <1>0 DEF Journaled
<1>2. lifecycle = "Running" /\ t \in DOMAIN trials /\ trials[t].tag = "Running" /\ s \in Outcomes
  BY <1>0, <1>1, Waiting DEF Record, Records
<1>3. s.tag \in OutcomeTags
  BY <1>2 DEF Outcomes
<1>4. [n \in DOMAIN trials' |-> trials'[n].tag]
        = [k \in DOMAIN tags \cup {t} |-> IF k = t THEN s.tag ELSE tags[k]]
  BY <1>1 DEF Recorded
<1>5. Ledger!Finish(t, s.tag)
  BY <1>1, <1>2, <1>4 DEF Ledger!Finish, Ledger!With
<1>6. t \in DOMAIN tags
  BY <1>2
<1>. QED BY <1>3, <1>5, <1>6 DEF Ledger!Next

LEMMA EndLedger ==
  ASSUME IInv, Complete \/ RecordFailure
  PROVE  Ledger!Next
<1>. DEFINE tags == [n \in DOMAIN trials |-> trials[n].tag]
<1>1. CASE Complete
  <2>1. lifecycle = "Running" /\ lifecycle' = "Completed" /\ trials' = trials
    BY <1>1 DEF Complete, IInv, PhaseOK
  <2>2. Ledger!End("Completed")
    BY <2>1 DEF Ledger!End
  <2>. QED BY <2>2 DEF Ledger!Next
<1>2. CASE RecordFailure
  <2>0. PICK final : final = cause
    OBVIOUS
  <2>1. /\ lifecycle = "Running" /\ lifecycle' = final /\ final \in {"Cancelled", "Failed"}
        /\ trials' = GivenUp(trials)
    BY <1>2, <2>0 DEF RecordFailure, Stopped, Legal, IInv, PhaseOK, Flags
  <2>2. \A n \in DOMAIN trials : trials[n] \in States
    BY DEF IInv, StudyOK, IsHistory
  <2>3. /\ DOMAIN trials' = DOMAIN trials
        /\ \A n \in DOMAIN trials :
             trials'[n].tag = IF trials[n].tag = "Running" THEN "Cancelled" ELSE trials[n].tag
    BY <2>1, GivenUpFacts DEF IInv, StudyOK, IsHistory
  <2>4. [n \in DOMAIN trials' |-> trials'[n].tag]
          = [n \in DOMAIN tags |-> IF tags[n] = "Running" THEN "Cancelled" ELSE tags[n]]
    BY <2>3
  <2>5. Ledger!End(final)
    BY <2>1, <2>4 DEF Ledger!End, Ledger!GiveUp
  <2>. QED BY <2>1, <2>5 DEF Ledger!Next
<1>. QED BY <1>1, <1>2

(* The other steps of a leg leave the ledger as it is.                      *)
LEMMA LedgerSteps ==
  ASSUME IInv, [Next]_vars, leg' = leg, phase' # "down"
  PROVE  Ledger!Next \/ UNCHANGED Ledger!vars
<1>1. leg \in Nat
  BY DEF IInv, Flags
<1>2. ~Resume
  BY <1>1 DEF Resume
<1>3. ~Crash
  BY DEF Crash, To
<1>4. \/ UNCHANGED <<lifecycle, trials>>
      \/ \E w \in Workers : Reserve(w) \/ Journaled(w)
      \/ Complete \/ RecordFailure
  BY <1>2, <1>3 DEF Next, Work, Main, RecordTrial, Poll, Admit, SpaceExhausted, Start, RequestStop,
     Evaluate, EnterRecord, JournalFails, Account, Fails, Stop, DurationElapses,
     Announce, WriteCompletion, CompletionFails, Interrupt, DieRecording, Persist, study, vars
<1>. QED BY <1>4, ReserveLedger, JournaledLedger, EndLedger DEF Ledger!vars

(* Within a leg the run keeps the promises of the trial ledger: a number of *)
(* its own for every trial, one outcome that it keeps, nothing after the    *)
(* end (trial.ts, recording.ts, runtime.ts).                                *)
THEOREM LegsStayLedgers == Spec => LegsAreLedgers
<1>1. IInv /\ [Next]_vars =>
        [leg' = leg /\ phase' # "down" => Ledger!Next \/ UNCHANGED Ledger!vars]_vars
  BY LedgerSteps
<1>. QED BY <1>1, InvariantHolds, PTL DEF Spec, LegsAreLedgers

-------------------------------------------------------------------------------
(* The cost                                                                 *)

(* Workers whose trial was admitted and has no outcome yet, and the trials  *)
(* completed in the checkpoint or in the journal beyond it: what the next   *)
(* leg will have completed.  Only the former become the latter.             *)
Spending == {w \in Workers : pc[w] \in {"admitted"} \cup Reserving}
Costly(log) ==
  {log[i].trial : i \in {k \in DOMAIN log : log[k].trial >= Floor /\ log[k].state.tag = "Completed"}}
Banked == {n \in DOMAIN Saved : Saved[n].tag = "Completed"} \cup Costly(journal)

(* The study has the checkpoint's trials as they are, and while no worker   *)
(* has failed it has all of them and all the journal's beyond it.           *)
SavedSeen ==
  /\ \A n \in DOMAIN trials : n < Floor => n \in DOMAIN Saved /\ trials[n] = Saved[n]
  /\ phase = "down" => DOMAIN trials = {}

Settled ==
  phase = "trials" =>
    /\ \A n \in DOMAIN Saved : n \in DOMAIN trials /\ trials[n] = Saved[n]
    /\ \A i \in DOMAIN journal : journal[i].trial >= Floor =>
         journal[i].trial \in DOMAIN trials /\ trials[journal[i].trial] = journal[i].state

Affordable == Cardinality(Banked) + Cardinality(Spending) <= MaxCost + Cardinality(Workers)

Budget == SavedSeen /\ Settled /\ Affordable

LEMMA SpendingFinite ==
  /\ IsFiniteSet(Workers) /\ Cardinality(Workers) \in Nat
  /\ \A S \in SUBSET Workers :
       IsFiniteSet(S) /\ Cardinality(S) \in Nat /\ Cardinality(S) <= Cardinality(Workers)
BY RunAssumption, FS_Subset, FS_CardinalityType DEF RunAssumption

LEMMA BankedFinite ==
  ASSUME IInv
  PROVE  /\ IsFiniteSet(Banked) /\ Cardinality(Banked) \in Nat
         /\ \A S \in SUBSET Banked :
              IsFiniteSet(S) /\ Cardinality(S) \in Nat /\ Cardinality(S) <= Cardinality(Banked)
<1>1. Top \in Nat
  BY TopFacts, RunAssumption DEF IInv, Flags
<1>2. \A i \in DOMAIN journal : journal[i].trial \in 0..(Top - 1)
  <2>1. \A i \in DOMAIN journal : journal[i] \in Records /\ journal[i].trial < Top
    BY DEF IInv, Durable, StoreOK
  <2>. QED BY <1>1, <2>1 DEF Records
<1>3. Banked \in SUBSET (0..(Top - 1))
  BY <1>2 DEF Banked, Costly, IInv, Durable, StoreOK, IsHistory
<1>4. IsFiniteSet(0..(Top - 1))
  BY <1>1, FS_Interval
<1>5. IsFiniteSet(Banked)
  BY <1>3, <1>4, FS_Subset
<1>. QED BY <1>5, FS_Subset, FS_CardinalityType

(* What is completed in the study is completed in the next leg's history.   *)
LEMMA CostedBanked ==
  ASSUME IInv, SavedSeen
  PROVE  Costed \subseteq Banked
<1>1. Floor \in Nat /\ \A n \in DOMAIN trials : n \in Nat
  <2>1. Floor \in Nat
    BY FloorFacts, RunAssumption DEF IInv, Durable
  <2>. QED BY <2>1 DEF IInv, StudyOK, IsHistory
<1>2. ASSUME NEW n \in Costed PROVE n \in Banked
  <2>1. n \in DOMAIN trials /\ trials[n].tag = "Completed"
    BY DEF Costed
  <2>2. CASE n < Floor
    BY <2>1, <2>2 DEF SavedSeen, Banked
  <2>3. CASE n >= Floor
    <3>1. Holds(journal, n, trials[n])
      BY <2>1 DEF IInv, AliveOK, SavedSeen
    <3>2. PICK i \in DOMAIN journal : journal[i].trial = n /\ journal[i].state = trials[n]
      BY <3>1 DEF Holds
    <3>3. n \in Costly(journal)
      BY <2>1, <2>3, <3>2 DEF Costly
    <3>. QED BY <3>3 DEF Banked
  <2>. QED BY <1>1, <2>1, <2>2, <2>3
<1>. QED BY <1>2

LEMMA BankedCosted ==
  ASSUME Settled, phase = "trials"
  PROVE  Banked \subseteq Costed
BY DEF Settled, Banked, Costly, Costed

(* Steps that leave what is banked and what the study holds.                *)
LEMMA Unspent ==
  ASSUME IInv, Budget, UNCHANGED <<trials, journal, checkpoint>>,
         phase' = "trials" => phase = "trials", phase' = "down" => phase = "down",
         Spending' \subseteq Spending
  PROVE  Budget'
<1>1. Saved' = Saved /\ Floor' = Floor
  <2>1. Saved' = Saved
    BY DEF Saved
  <2>. QED BY <2>1 DEF Floor
<1>2. Banked' = Banked
  BY <1>1 DEF Banked, Costly
<1>3. SavedSeen' /\ Settled'
  BY <1>1 DEF Budget, SavedSeen, Settled
<1>4. Cardinality(Spending') <= Cardinality(Spending)
  <2>1. IsFiniteSet(Spending) /\ Spending' \in SUBSET Spending
    BY SpendingFinite DEF Spending
  <2>. QED BY <2>1, FS_Subset
<1>5. Spending \in SUBSET Workers /\ Spending' \in SUBSET Workers
  BY DEF Spending
<1>6. Affordable'
  BY <1>2, <1>4, <1>5, SpendingFinite, BankedFinite, RunAssumption
     DEF Budget, Affordable, RunAssumption
<1>. QED BY <1>3, <1>6 DEF Budget

(* A trial that is recorded, or journaled and not recorded.                 *)
LEMMA Spent ==
  ASSUME IInv, Budget, NEW w \in Workers, pc[w] = "journaling",
         journal' = Append(journal, Record(w)), checkpoint' = checkpoint,
         Spending' \subseteq Spending \ {w}
  PROVE  Affordable'
<1>1. Saved' = Saved /\ Floor' = Floor
  <2>1. Saved' = Saved
    BY DEF Saved
  <2>. QED BY <2>1 DEF Floor
<1>2. /\ journal \in Seq(Records) /\ Record(w).trial = job[w].trial /\ Record(w) \in Records
  BY Waiting DEF IInv, Durable, StoreOK, Record
<1>3. \A i \in DOMAIN journal' : journal'[i] = Record(w) \/ (i \in DOMAIN journal /\ journal'[i] = journal[i])
  BY <1>2
<1>4. Banked' \subseteq Banked \cup {job[w].trial}
  <2>1. ASSUME NEW n \in Costly(journal)' PROVE n \in Costly(journal) \cup {job[w].trial}
    <3>1. PICK i \in DOMAIN journal' :
            n = journal'[i].trial /\ journal'[i].trial >= Floor /\ journal'[i].state.tag = "Completed"
      BY <1>1, <2>1 DEF Costly
    <3>. QED BY <1>2, <1>3, <3>1 DEF Costly
  <2>. QED BY <1>1, <2>1 DEF Banked
<1>5. /\ IsFiniteSet(Banked \cup {job[w].trial})
      /\ Cardinality(Banked \cup {job[w].trial}) \in Nat
      /\ Cardinality(Banked \cup {job[w].trial}) <= Cardinality(Banked) + 1
  BY BankedFinite, FS_AddElement
<1>6. Cardinality(Banked') <= Cardinality(Banked) + 1 /\ Cardinality(Banked') \in Nat
  <2>1. Banked' \in SUBSET (Banked \cup {job[w].trial})
    BY <1>4
  <2>2. IsFiniteSet(Banked') /\ Cardinality(Banked') <= Cardinality(Banked \cup {job[w].trial})
    BY <1>5, <2>1, FS_Subset
  <2>. QED BY <1>5, <2>2, BankedFinite, FS_CardinalityType
<1>7. Spending \in SUBSET Workers /\ w \in Spending
  BY DEF Spending, Reserving
<1>8. IsFiniteSet(Spending) /\ Cardinality(Spending) \in Nat
  BY <1>7, SpendingFinite
<1>9. IsFiniteSet(Spending \ {w}) /\ Cardinality(Spending \ {w}) = Cardinality(Spending) - 1
  BY <1>7, <1>8, FS_RemoveElement
<1>10. Cardinality(Spending') <= Cardinality(Spending) - 1 /\ Cardinality(Spending') \in Nat
  <2>1. Spending' \in SUBSET (Spending \ {w})
    OBVIOUS
  <2>. QED BY <1>9, <2>1, FS_Subset, FS_CardinalityType
<1>. QED BY <1>6, <1>8, <1>10, SpendingFinite, BankedFinite, RunAssumption
         DEF Budget, Affordable, RunAssumption

LEMMA BudgetInit ==
  ASSUME Init
  PROVE  Budget
<1>1. /\ IInv /\ phase = "trials" /\ trials = << >> /\ journal = << >>
      /\ pc = [w \in Workers |-> "polling"] /\ checkpoint \in {None, Snapshot}
  BY InitHolds DEF Init
<1>2. Saved = << >>
  BY <1>1 DEF Saved, Snapshot
<1>3. DOMAIN trials = {} /\ DOMAIN journal = {} /\ DOMAIN Saved = {}
  BY <1>1, <1>2
<1>4. SavedSeen /\ Settled
  BY <1>3 DEF SavedSeen, Settled
<1>5. Banked = {} /\ Spending = {}
  BY <1>1, <1>3 DEF Banked, Costly, Spending, Reserving
<1>6. Affordable
  BY <1>5, FS_EmptySet, SpendingFinite, RunAssumption DEF Affordable, RunAssumption
<1>. QED BY <1>4, <1>6 DEF Budget

LEMMA BudgetAdmit ==
  ASSUME IInv, Budget, NEW w \in Workers, Admit(w)
  PROVE  Budget'
<1>1. /\ phase = "trials" /\ phase' = phase
      /\ UNCHANGED <<trials, journal, checkpoint>>
  BY DEF Admit, main, study, stored
<1>2. /\ pc \in [Workers -> Busy \cup Idle] /\ pc[w] = "checking"
  BY DEF IInv, WorkOK, Admit
<1>3. CASE pc' = [pc EXCEPT ![w] = "polling"]
  <2>1. Spending' \subseteq Spending
    BY <1>2, <1>3 DEF Spending, Reserving
  <2>. QED BY <1>1, <2>1, Unspent
<1>4. CASE pc' # [pc EXCEPT ![w] = "polling"]
  <2>1. ~OverBudget
    BY <1>4 DEF Admit, Goto
  <2>2. Banked \subseteq Costed /\ Costed \subseteq Banked
    BY <1>1, BankedCosted, CostedBanked DEF Budget
  <2>3. Banked = Costed
    BY <2>2
  <2>4. Cardinality(Banked) <= MaxCost
    BY <2>1, <2>3, BankedFinite, RunAssumption DEF OverBudget, RunAssumption
  <2>5. Saved' = Saved /\ Floor' = Floor
    <3>1. Saved' = Saved
      BY <1>1 DEF Saved
    <3>. QED BY <3>1 DEF Floor
  <2>6. Banked' = Banked
    BY <1>1, <2>5 DEF Banked, Costly
  <2>7. SavedSeen' /\ Settled'
    BY <1>1, <2>5 DEF Budget, SavedSeen, Settled
  <2>8. Cardinality(Spending') \in Nat /\ Cardinality(Spending') <= Cardinality(Workers)
    <3>1. Spending' \in SUBSET Workers
      BY DEF Spending
    <3>. QED BY <3>1, SpendingFinite
  <2>9. Affordable'
    BY <2>4, <2>6, <2>8, SpendingFinite, BankedFinite, RunAssumption DEF Affordable, RunAssumption
  <2>. QED BY <2>7, <2>9 DEF Budget
<1>. QED BY <1>3, <1>4

LEMMA BudgetReserve ==
  ASSUME IInv, Budget, NEW w \in Workers, Reserve(w)
  PROVE  Budget'
<1>1. /\ phase = "trials" /\ phase' = phase /\ pc[w] = "admitted"
      /\ UNCHANGED <<journal, checkpoint>> /\ pc' = [pc EXCEPT ![w] = "starting"]
      /\ trials' = Recorded(job[w].trial, [tag |-> "Running", draw |-> draws])
  BY DEF Reserve, main, stored, Goto
<1>2. /\ job[w].trial \in Nat /\ Floor <= job[w].trial /\ job[w].trial \notin DOMAIN trials
      /\ pc \in [Workers -> Busy \cup Idle]
  BY <1>1 DEF IInv, WorkOK, Fits, Busy
<1>3. /\ DOMAIN trials' = DOMAIN trials \cup {job[w].trial}
      /\ \A n \in DOMAIN trials : trials'[n] = trials[n]
  BY <1>1, <1>2 DEF Recorded
<1>4. Saved' = Saved /\ Floor' = Floor /\ Floor \in Nat
  <2>1. Saved' = Saved
    BY <1>1 DEF Saved
  <2>2. Floor \in Nat
    BY FloorFacts, RunAssumption DEF IInv, Durable
  <2>. QED BY <2>1, <2>2 DEF Floor
<1>5. Banked' = Banked /\ Spending' = Spending
  <2>1. Banked' = Banked
    BY <1>1, <1>4 DEF Banked, Costly
  <2>2. Spending' = Spending
    BY <1>1, <1>2 DEF Spending, Reserving
  <2>. QED BY <2>1, <2>2
<1>6. SavedSeen'
  BY <1>1, <1>2, <1>3, <1>4 DEF Budget, SavedSeen
<1>7. Settled'
  BY <1>1, <1>3, <1>4 DEF Budget, Settled
<1>. QED BY <1>5, <1>6, <1>7 DEF Budget, Affordable

LEMMA BudgetJournaled ==
  ASSUME IInv, Budget, NEW w \in Workers, Journaled(w)
  PROVE  Budget'
<1>. DEFINE t == job[w].trial  s == job[w].state
<1>1. /\ phase' = phase /\ pc[w] = "journaling" /\ pc' = [pc EXCEPT ![w] = "recorded"]
      /\ journal' = Append(journal, Record(w)) /\ checkpoint' = checkpoint
      /\ trials' = Recorded(t, s)
  BY DEF Journaled, main, Goto
<1>2. /\ t \in Nat /\ Floor <= t /\ t \in DOMAIN trials /\ phase \in {"trials", "stopping"}
      /\ pc \in [Workers -> Busy \cup Idle] /\ Record(w) \in Records
  BY <1>1, Waiting DEF IInv, WorkOK, Record, Records
<1>3. Saved' = Saved /\ Floor' = Floor /\ Floor \in Nat /\ \A n \in DOMAIN Saved : n < Floor
  <2>1. Saved' = Saved
    BY <1>1 DEF Saved
  <2>2. Floor \in Nat /\ \A n \in DOMAIN Saved : n < Floor
    BY FloorFacts, RunAssumption DEF IInv, Durable
  <2>. QED BY <2>1, <2>2 DEF Floor
<1>4. Spending' \subseteq Spending \ {w}
  BY <1>1, <1>2 DEF Spending, Reserving
<1>5. Affordable'
  BY <1>1, <1>4, Spent
<1>6. /\ DOMAIN trials' = DOMAIN trials \cup {t} /\ trials'[t] = s
      /\ \A n \in DOMAIN trials \ {t} : trials'[n] = trials[n]
  BY <1>1 DEF Recorded
<1>7. SavedSeen'
  <2>1. ASSUME NEW n \in DOMAIN trials', n < Floor PROVE n \in DOMAIN trials \ {t}
    BY <1>2, <1>3, <1>6, <2>1
  <2>. QED BY <1>1, <1>2, <1>3, <1>6, <2>1 DEF Budget, SavedSeen
<1>8. Settled'
  <2>1. CASE phase = "trials"
    <3>0. Settled /\ AppendsAtTail(t) /\ journal \in Seq(Records)
      BY DEF Budget, Journaled, IInv, Durable, StoreOK
    <3>1. ASSUME NEW n \in DOMAIN Saved PROVE n \in DOMAIN trials' /\ trials'[n] = Saved[n]
      <4>1. n \in DOMAIN trials /\ trials[n] = Saved[n] /\ n < Floor
        BY <1>3, <2>1, <3>0 DEF Settled
      <4>2. n # t
        <5>1. n = t => t < Floor
          BY <4>1
        <5>. QED BY <1>2, <1>3, <5>1
      <4>. QED BY <1>6, <4>1, <4>2
    <3>2. ASSUME NEW i \in DOMAIN journal', journal'[i].trial >= Floor
          PROVE  journal'[i].trial \in DOMAIN trials' /\ trials'[journal'[i].trial] = journal'[i].state
      <4>1. journal'[i] = Record(w) \/ (i \in DOMAIN journal /\ journal'[i] = journal[i])
        BY <1>1, <1>2, <3>0
      <4>2. CASE journal'[i] = Record(w)
        BY <1>6, <4>2 DEF Record
      <4>3. CASE i \in DOMAIN journal /\ journal'[i] = journal[i]
        <5>1. journal[i].trial \in DOMAIN trials /\ trials[journal[i].trial] = journal[i].state
          BY <2>1, <3>0, <3>2, <4>3 DEF Settled
        <5>2. journal[i].trial # t
          BY <3>0, <4>3 DEF AppendsAtTail
        <5>. QED BY <1>6, <4>3, <5>1, <5>2
      <4>. QED BY <4>1, <4>2, <4>3
    <3>. QED BY <1>3, <3>1, <3>2 DEF Settled
  <2>2. CASE phase # "trials"
    BY <1>1, <2>2 DEF Settled
  <2>. QED BY <2>1, <2>2
<1>. QED BY <1>5, <1>7, <1>8 DEF Budget

LEMMA BudgetJournalFails ==
  ASSUME IInv, Budget, NEW w \in Workers, JournalFails(w)
  PROVE  Budget'
<1>1. /\ phase' = "stopping" /\ pc[w] = "journaling" /\ pc' = [pc EXCEPT ![w] = "stopped"]
      /\ UNCHANGED <<trials, checkpoint>> /\ pc \in [Workers -> Busy \cup Idle]
  BY DEF JournalFails, StopAll, study, Goto, IInv, WorkOK
<1>2. phase # "down"
  BY <1>1, Waiting
<1>3. Spending' \subseteq Spending \ {w}
  BY <1>1 DEF Spending, Reserving
<1>4. CASE journal' = journal
  BY <1>1, <1>2, <1>3, <1>4, Unspent
<1>5. CASE journal' # journal
  <2>1. journal' = Append(journal, Record(w))
    BY <1>5 DEF JournalFails
  <2>2. Affordable'
    BY <1>1, <1>3, <2>1, Spent
  <2>3. Saved' = Saved /\ Floor' = Floor
    <3>1. Saved' = Saved
      BY <1>1 DEF Saved
    <3>. QED BY <3>1 DEF Floor
  <2>4. SavedSeen' /\ Settled'
    BY <1>1, <1>2, <2>3 DEF Budget, SavedSeen, Settled
  <2>. QED BY <2>2, <2>4 DEF Budget
<1>. QED BY <1>4, <1>5

LEMMA BudgetSaves ==
  ASSUME IInv, Budget, IInv', checkpoint' = Snapshot, phase \in {"announced", "persisting"},
         phase' \in {"ended", "stopping"}, UNCHANGED <<trials, draws, journal, pc>>
  PROVE  Budget'
<1>1. checkpoint' # None
  <2>1. trials \in Histories /\ draws \in 0..SpaceSize
    BY HistoryTypes, RunAssumption DEF IInv, StudyOK, Flags
  <2>2. Snapshot \in [trials : Histories, draws : 0..SpaceSize]
    BY <2>1 DEF Snapshot
  <2>. QED BY <2>2, NoneAssumption
<1>2. Saved' = trials
  BY <1>1 DEF Saved, Snapshot
<1>3. Costly(journal)' = {}
  <2>1. ASSUME NEW i \in DOMAIN journal' PROVE ~(journal'[i].trial >= Floor')
    <3>1. journal'[i].trial \in DOMAIN trials
      BY <2>1 DEF IInv, AliveOK
    <3>2. Floor' \in Nat /\ \A n \in DOMAIN trials : n < Floor' /\ n \in Nat
      <4>1. Floor' = NextNumber(trials)
        BY <1>2 DEF Floor
      <4>2. Top \in Nat /\ DOMAIN trials \subseteq 0..(Top - 1)
        BY TopFacts, RunAssumption DEF IInv, Flags, StudyOK, IsHistory
      <4>. QED BY <4>1, <4>2, Next1
    <3>. QED BY <3>1, <3>2
  <2>. QED BY <2>1 DEF Costly
<1>4. Banked' = Costed
  BY <1>2, <1>3 DEF Banked, Costed
<1>5. Costed \in SUBSET Banked
  BY CostedBanked DEF Budget
<1>6. Cardinality(Banked') <= Cardinality(Banked) /\ Cardinality(Banked') \in Nat
  BY <1>4, <1>5, BankedFinite
<1>7. Spending' = Spending /\ Cardinality(Spending) \in Nat
  <2>1. Spending' = Spending /\ Spending \in SUBSET Workers
    BY DEF Spending
  <2>. QED BY <2>1, SpendingFinite
<1>8. Affordable'
  BY <1>6, <1>7, SpendingFinite, BankedFinite, RunAssumption DEF Budget, Affordable, RunAssumption
<1>9. SavedSeen' /\ Settled'
  BY <1>2 DEF SavedSeen, Settled
<1>. QED BY <1>8, <1>9 DEF Budget

LEMMA BudgetRecordFailure ==
  ASSUME IInv, Budget, RecordFailure
  PROVE  Budget'
<1>1. /\ phase = "stopping" /\ phase' = "persisting" /\ trials' = GivenUp(trials)
      /\ UNCHANGED <<journal, checkpoint, pc>>
  BY DEF RecordFailure, Stopped, To, stored
<1>2. Saved' = Saved /\ Floor' = Floor
  <2>1. Saved' = Saved
    BY <1>1 DEF Saved
  <2>. QED BY <2>1 DEF Floor
<1>3. /\ DOMAIN trials' = DOMAIN trials
      /\ \A n \in DOMAIN trials : trials[n].tag # "Running" => trials'[n] = trials[n]
  BY <1>1, GivenUpFacts DEF IInv, StudyOK, IsHistory
<1>4. SavedSeen'
  BY <1>1, <1>2, <1>3 DEF Budget, SavedSeen, IInv, Durable, SavedOK
<1>5. Settled'
  BY <1>1 DEF Settled
<1>6. Banked' = Banked /\ Spending' = Spending
  BY <1>1, <1>2 DEF Banked, Costly, Spending
<1>. QED BY <1>4, <1>5, <1>6 DEF Budget, Affordable

LEMMA BudgetCrash ==
  ASSUME IInv, Budget, Crash
  PROVE  Budget'
<1>1. /\ phase' = "down" /\ checkpoint' = checkpoint /\ pc' = [w \in Workers |-> "done"]
      /\ DOMAIN trials' = {}
  BY DEF Crash, To
<1>2. SavedSeen' /\ Settled'
  BY <1>1 DEF SavedSeen, Settled
<1>3. Spending' = {}
  BY <1>1 DEF Spending, Reserving
<1>4. CASE journal' = journal
  <2>1. Saved' = Saved /\ Floor' = Floor
    <3>1. Saved' = Saved
      BY <1>1 DEF Saved
    <3>. QED BY <3>1 DEF Floor
  <2>2. Banked' = Banked
    BY <1>4, <2>1 DEF Banked, Costly
  <2>3. Cardinality(Spending) \in Nat /\ Cardinality(Spending') = 0
    <3>1. Spending \in SUBSET Workers
      BY DEF Spending
    <3>. QED BY <1>3, <3>1, SpendingFinite, FS_EmptySet
  <2>4. Affordable'
    BY <2>2, <2>3, SpendingFinite, BankedFinite, RunAssumption DEF Budget, Affordable, RunAssumption
  <2>. QED BY <1>2, <2>4 DEF Budget
<1>5. CASE journal' # journal
  <2>1. PICK w \in Workers : pc[w] = "journaling" /\ journal' = Append(journal, Record(w))
    BY <1>5 DEF Crash
  <2>2. Affordable'
    BY <1>1, <1>3, <2>1, Spent
  <2>. QED BY <1>2, <2>2 DEF Budget
<1>. QED BY <1>4, <1>5

LEMMA BudgetResume ==
  ASSUME IInv, Budget, Resume
  PROVE  Budget'
<1>. DEFINE R == RecoveredTrials
<1>1. /\ checkpoint # None /\ trials' = GivenUp(R) /\ UNCHANGED <<journal, checkpoint>>
      /\ pc' = [w \in Workers |-> "polling"] /\ phase' = "trials"
  BY DEF Resume, Recoverable
<1>2. /\ IsHistory(R)
      /\ \A n \in DOMAIN Saved : n \in DOMAIN R /\ R[n] = Saved[n]
      /\ \A i \in DOMAIN journal : journal[i].trial >= Floor =>
           journal[i].trial \in DOMAIN R /\ R[journal[i].trial] = journal[i].state
      /\ \A n \in DOMAIN R :
           \/ n \in DOMAIN Saved
           \/ \E i \in DOMAIN journal : journal[i].trial >= Floor /\ journal[i].trial = n
  BY <1>1, Recovery, RunAssumption DEF IInv
<1>. HIDE DEF R
<1>3. \A i \in DOMAIN journal : journal[i].state \in Outcomes /\ journal[i].trial \in Nat
  <2>1. \A i \in DOMAIN journal : journal[i] \in Records
    BY DEF IInv, Durable, StoreOK
  <2>. QED BY <2>1 DEF Records
<1>4. \A n \in DOMAIN R : R[n].tag # "Running"
  BY <1>2, <1>3, StateFacts DEF IInv, Durable, SavedOK
<1>5. DOMAIN trials' = DOMAIN R /\ \A n \in DOMAIN R : trials'[n] = R[n]
  BY <1>1, <1>2, <1>4, GivenUpFacts DEF IsHistory
<1>6. Saved' = Saved /\ Floor' = Floor /\ Floor \in Nat
  <2>1. Saved' = Saved
    BY <1>1 DEF Saved
  <2>2. Floor \in Nat
    BY FloorFacts, RunAssumption DEF IInv, Durable
  <2>. QED BY <2>1, <2>2 DEF Floor
<1>7. SavedSeen'
  <2>1. ASSUME NEW n \in DOMAIN R, n < Floor PROVE n \in DOMAIN Saved
    <3>1. \A i \in DOMAIN journal : journal[i].trial >= Floor => journal[i].trial # n
      <4>1. n >= Floor => FALSE
        BY <1>2, <1>6, <2>1 DEF IsHistory
      <4>. QED BY <4>1
    <3>. QED BY <1>2, <3>1
  <2>. QED BY <1>1, <1>2, <1>5, <1>6, <2>1 DEF SavedSeen
<1>8. Settled'
  BY <1>1, <1>2, <1>5, <1>6 DEF Settled
<1>9. Banked' = Banked
  BY <1>1, <1>6 DEF Banked, Costly
<1>10. Cardinality(Spending) \in Nat /\ Cardinality(Spending') = 0
  <2>1. Spending \in SUBSET Workers /\ Spending' = {}
    BY <1>1 DEF Spending, Reserving
  <2>. QED BY <2>1, SpendingFinite, FS_EmptySet
<1>11. Affordable'
  BY <1>9, <1>10, SpendingFinite, BankedFinite, RunAssumption DEF Budget, Affordable, RunAssumption
<1>. QED BY <1>7, <1>8, <1>11 DEF Budget

(* The steps of a worker that neither admit, reserve nor journal.           *)
LEMMA BudgetWork ==
  ASSUME IInv, Budget, NEW w \in Workers,
         \/ Poll(w) \/ SpaceExhausted(w) \/ Start(w) \/ Evaluate(w) \/ EnterRecord(w)
         \/ Account(w) \/ Fails(w) \/ Stop(w)
  PROVE  Budget'
<1>1. /\ UNCHANGED <<trials, journal, checkpoint>> /\ phase' # "down"
      /\ phase' = "trials" => phase = "trials"
  <2>1. UNCHANGED <<trials, journal, checkpoint>> /\ phase' \in {phase, "stopping"}
    BY DEF Poll, SpaceExhausted, Start, Evaluate, EnterRecord, Account, Fails, Stop, StopAll,
       main, study, stored
  <2>2. phase # "down"
    BY DEF Poll, SpaceExhausted, Start, Evaluate, EnterRecord, Account, Fails, Stop, IInv, WorkOK,
       Fits, Busy, Reserving
  <2>. QED BY <2>1, <2>2
<1>2. pc \in [Workers -> Busy \cup Idle]
  BY DEF IInv, WorkOK
<1>3. PICK l : pc' = [pc EXCEPT ![w] = l] /\ (l \in {"admitted"} \cup Reserving => w \in Spending)
  BY DEF Poll, SpaceExhausted, Start, Evaluate, EnterRecord, Account, Fails, Stop, Goto, Spending,
     Reserving
<1>4. Spending' \subseteq Spending
  BY <1>2, <1>3 DEF Spending
<1>. QED BY <1>1, <1>4, Unspent

LEMMA BudgetNext == ASSUME IInv, Budget, [Next]_vars, IInv' PROVE Budget'
<1>1. ASSUME NEW w \in Workers, Work(w) PROVE Budget'
  BY <1>1, BudgetAdmit, BudgetReserve, BudgetJournaled, BudgetJournalFails, BudgetWork
     DEF Work, RecordTrial
<1>2. CASE (\E w \in Workers : RequestStop(w)) \/ DurationElapses \/ Interrupt \/ UNCHANGED vars
  <2>1. /\ UNCHANGED <<trials, journal, checkpoint, pc>>
        /\ phase' = phase \/ (phase \in {"trials", "completed", "announced"} /\ phase' = "stopping")
    BY <1>2 DEF RequestStop, DurationElapses, Interrupt, StopAll, main, study, stored, vars
  <2>2. Spending' = Spending
    BY <2>1 DEF Spending
  <2>. QED BY <2>1, <2>2, Unspent
<1>3. CASE Complete \/ Announce \/ DieRecording \/ ((CompletionFails \/ Persist) /\ checkpoint' = checkpoint)
  <2>1. /\ UNCHANGED <<trials, journal, checkpoint, pc>> /\ phase' \notin {"trials", "down"}
    BY <1>3 DEF Complete, Announce, DieRecording, CompletionFails, Persist, To, Stopped, study, stored
  <2>2. Spending' = Spending
    BY <2>1 DEF Spending
  <2>. QED BY <2>1, <2>2, Unspent
<1>4. CASE WriteCompletion \/ ((CompletionFails \/ Persist) /\ checkpoint' # checkpoint)
  <2>1. /\ checkpoint' = Snapshot /\ phase \in {"announced", "persisting"}
        /\ phase' \in {"ended", "stopping"} /\ UNCHANGED <<trials, draws, journal, pc>>
    BY <1>4 DEF WriteCompletion, CompletionFails, Persist, To, study, stored
  <2>. QED BY <2>1, BudgetSaves
<1>. QED BY <1>1, <1>2, <1>3, <1>4, BudgetRecordFailure, BudgetCrash, BudgetResume DEF Next, Main

(* The cost budget is overshot by at most one trial per worker, over any    *)
(* number of failures, crashes and resumptions: what a leg finds completed  *)
(* counts, and nothing is admitted once it is too much (budget.ts,          *)
(* trialSchedule.ts, recovery.ts).                                          *)
THEOREM CostStaysBounded == Spec => []CostBounded
<1>1. Init => IInv /\ Budget
  BY InitHolds, BudgetInit
<1>2. IInv /\ Budget /\ [Next]_vars => (IInv /\ Budget)'
  BY NextPreserves, BudgetNext
<1>3. ASSUME IInv, Budget PROVE CostBounded
  <2>1. Costed \in SUBSET Banked
    BY <1>3, CostedBanked DEF Budget
  <2>2. Cardinality(Costed) \in Nat /\ Cardinality(Costed) <= Cardinality(Banked)
    BY <1>3, <2>1, BankedFinite
  <2>3. Spending \in SUBSET Workers
    BY DEF Spending
  <2>. QED BY <1>3, <2>2, <2>3, SpendingFinite, BankedFinite, RunAssumption
           DEF Budget, Affordable, CostBounded, RunAssumption
<1>. QED BY <1>1, <1>2, <1>3, PTL DEF Spec
===============================================================================
