---------------------------- MODULE AskTellProofs -----------------------------
(***************************************************************************)
(* Theorems about AskTell, for any fibers, budget, space and values.  One   *)
(* section per part of the invariant: the types; the study, its journal and *)
(* the ledger; the completion; the story the events tell of each trial; the *)
(* incumbent.  OthersWait lets every part look at one fiber at a time, and  *)
(* HistoryChanges and Speaks name the few steps that matter to it.          *)
(***************************************************************************)
EXTENDS AskTell, FiniteSetTheorems, TLAPS

-------------------------------------------------------------------------------
(* The inductive invariant                                                  *)

States == {Running, Cancelled} \cup Outcomes
Reasons == {"spaceExhausted", "budgetExhausted", "interrupted"}
Reports == [trial : Numbers, state : Outcomes]
Places == {"idle", "reserved", "checking"} \cup Reporting \cup Ending
Closings == {[reason |-> "spaceExhausted", final |-> "Completed"],
             [reason |-> "budgetExhausted", final |-> "Completed"],
             [reason |-> "interrupted", final |-> "Cancelled"]}

(* The types, part by part.                                                 *)
FlagsOK ==
  /\ open \in BOOLEAN /\ published \in BOOLEAN /\ ended \in BOOLEAN /\ died \in BOOLEAN
  /\ lifecycle \in {"Running", "Completed", "Cancelled"}
  /\ draws \in 0..SpaceSize /\ interrupted \in 0..Interrupts
  /\ reason \in Reasons \cup {None}
  /\ best \in Values \cup {None}

StudyOK ==
  /\ \E m \in 0..Trials : trials \in [0..(m - 1) -> States]
  /\ asked \subseteq DOMAIN trials

LockOK ==
  /\ lock \in Clients \cup {None}
  /\ \A c \in Clients : (lock = c) <=> (pc[c] = "journaling")

StoreOK == journal \in Seq(Reports) /\ cursor \in 0..Len(journal)

MailOK == mailbox \in Seq(Events)

Fits(c) ==
  /\ pc[c] = "idle" => job[c] = None
  /\ pc[c] = "reserved" =>
       job[c] \in [trial : Numbers, state : {Running}] /\ job[c].trial \in DOMAIN trials
  /\ pc[c] \in Reporting => job[c] \in Reports /\ job[c].trial \in asked
  /\ pc[c] \in {"scoring", "improved"} => job[c].state.tag = "Completed"
  /\ pc[c] \in Ending => job[c] \in Closings

CallsOK ==
  /\ pc \in [Clients -> Places]
  /\ job \in [Clients -> Jobs]
  /\ \A c \in Clients : Fits(c)

Types == FlagsOK /\ StudyOK /\ LockOK /\ StoreOK /\ MailOK /\ CallsOK

-------------------------------------------------------------------------------
(* Trial numbers have no gaps: the next one is new, and within the budget   *)
(* as long as there are fewer trials than it allows.                        *)
LEMMA Numbering ==
  ASSUME AskTellAssumption, NEW m \in 0..Trials, DOMAIN trials = 0..(m - 1)
  PROVE  /\ NextNumber = m /\ Cardinality(DOMAIN trials) = m
         /\ NextNumber \notin DOMAIN trials
         /\ DOMAIN trials \cup {NextNumber} = 0..m
<1>1. Cardinality(0..(m - 1)) = m
  BY FS_Interval DEF AskTellAssumption
<1>. QED BY <1>1 DEF NextNumber, AskTellAssumption

LEMMA InitTypes == ASSUME AskTellAssumption, Init PROVE Types
<1>1. StudyOK
  <2>1. << >> \in [0..(0 - 1) -> States]
    OBVIOUS
  <2>. QED BY <2>1 DEF StudyOK, Init, AskTellAssumption
<1>2. FlagsOK
  <2>1. open \in BOOLEAN /\ published \in BOOLEAN /\ ended \in BOOLEAN /\ died \in BOOLEAN
    BY DEF Init
  <2>2. draws \in 0..SpaceSize /\ interrupted \in 0..Interrupts
    BY DEF Init, AskTellAssumption
  <2>3. lifecycle = "Running" /\ reason = None /\ best = None
    BY DEF Init
  <2>. QED BY <2>1, <2>2, <2>3 DEF FlagsOK
<1>4. LockOK
  BY DEF LockOK, Init, AskTellAssumption
<1>5. StoreOK /\ MailOK
  <2>1. << >> \in Seq(Reports) /\ << >> \in Seq(Events) /\ Len(<< >>) = 0
    OBVIOUS
  <2>. QED BY <2>1 DEF StoreOK, MailOK, Init
<1>3. CallsOK
  BY DEF CallsOK, Fits, Init, Places, Jobs, Reporting, Ending
<1>. QED BY <1>1, <1>2, <1>3, <1>4, <1>5 DEF Types

(* Trials and what callers know of them only grow.                          *)
Grows == DOMAIN trials \subseteq DOMAIN trials' /\ asked \subseteq asked'

(* A fiber goes from one place to another with a job that fits there.       *)
LEMMA CallsKept ==
  ASSUME CallsOK, NEW c \in Clients, NEW l \in Places, NEW j \in Jobs,
         Grows, Goto(c, l), Load(c, j),
         l = "idle" => j = None,
         l = "reserved" =>
           j \in [trial : Numbers, state : {Running}] /\ j.trial \in DOMAIN trials',
         l \in Reporting => j \in Reports /\ j.trial \in asked,
         l \in {"scoring", "improved"} => j.state.tag = "Completed",
         l \in Ending => j \in Closings
  PROVE  CallsOK'
<1>1. pc' \in [Clients -> Places] /\ job' \in [Clients -> Jobs]
  BY DEF CallsOK, Goto, Load
<1>2. ASSUME NEW d \in Clients PROVE Fits(d)'
  <2>1. CASE d = c
    <3>1. pc'[c] = l /\ job'[c] = j
      BY DEF CallsOK, Goto, Load
    <3>. QED BY <2>1, <3>1 DEF Fits, Grows
  <2>2. CASE d # c
    <3>1. pc'[d] = pc[d] /\ job'[d] = job[d]
      BY <2>2 DEF CallsOK, Goto, Load
    <3>. QED BY <3>1 DEF Fits, CallsOK, Grows
  <2>. QED BY <2>1, <2>2
<1>. QED BY <1>1, <1>2 DEF CallsOK

LEMMA CallsMoved ==
  ASSUME CallsOK, NEW c \in Clients, NEW l \in Places,
         Grows, Goto(c, l), job' = job,
         l # "idle", l # "reserved",
         l \in Reporting => job[c] \in Reports /\ job[c].trial \in asked,
         l \in {"scoring", "improved"} => job[c].state.tag = "Completed",
         l \in Ending => job[c] \in Closings
  PROVE  CallsOK'
<1>1. job[c] \in Jobs /\ Load(c, job[c])
  BY DEF CallsOK, Load
<1>. QED BY <1>1, CallsKept

LEMMA Returned ==
  ASSUME CallsOK, NEW c \in Clients, Grows, Return(c)
  PROVE  CallsOK'
<1>1. None \in Jobs /\ "idle" \in Places
  BY DEF Jobs, Places
<1>. QED BY <1>1, CallsKept DEF Return, Reporting, Ending

-------------------------------------------------------------------------------
(* The parts of the types that a step leaves alone.                         *)
LEMMA StudyKept == ASSUME StudyOK, trials' = trials, asked' = asked PROVE StudyOK'
BY DEF StudyOK, States, Running, Cancelled, Outcomes

LEMMA LockKept ==
  ASSUME LockOK, CallsOK, NEW c \in Clients, NEW l \in Places, Goto(c, l), lock' = lock,
         l # "journaling", pc[c] # "journaling"
  PROVE  LockOK'
BY DEF LockOK, CallsOK, Goto

LEMMA Unlocked ==
  ASSUME AskTellAssumption, LockOK, CallsOK, NEW c \in Clients, NEW l \in Places, Goto(c, l),
         lock' = None, l # "journaling", pc[c] = "journaling"
  PROVE  LockOK'
BY DEF LockOK, CallsOK, Goto, AskTellAssumption

LEMMA StoreKept == ASSUME StoreOK, journal' = journal, cursor' = cursor PROVE StoreOK'
BY DEF StoreOK, Reports, Numbers, Outcomes

LEMMA MailKept == ASSUME MailOK, mailbox' = mailbox PROVE MailOK'
BY DEF MailOK, Events, Numbers, Tags

LEMMA Offered == ASSUME MailOK, NEW e \in Events, Offer(e) PROVE MailOK'
<1>1. mailbox' \in Seq(Events)
  BY DEF MailOK, Offer
<1>. QED BY <1>1 DEF MailOK, Events, Numbers, Tags

(* A trial that has a number keeps one, whatever its state becomes.         *)
LEMMA StudyRecorded ==
  ASSUME StudyOK, NEW n \in DOMAIN trials, NEW s \in States,
         trials' = Recorded(n, s), asked' = asked
  PROVE  StudyOK'
<1>1. PICK m \in 0..Trials : trials \in [0..(m - 1) -> States]
  BY DEF StudyOK
<1>2. trials' \in [0..(m - 1) -> States]
  BY <1>1 DEF Recorded
<1>. QED BY <1>1, <1>2 DEF StudyOK, States, Running, Cancelled, Outcomes

LEMMA NobodyMoved ==
  ASSUME LockOK, CallsOK, Grows, pc' = pc, job' = job, lock' = lock
  PROVE  LockOK' /\ CallsOK'
<1>1. LockOK'
  BY DEF LockOK
<1>2. ASSUME NEW c \in Clients PROVE Fits(c)'
  <2>1. Fits(c) /\ pc'[c] = pc[c] /\ job'[c] = job[c]
    BY DEF CallsOK
  <2>. QED BY <2>1 DEF Fits, Grows
<1>3. pc' \in [Clients -> Places] /\ job' \in [Clients -> Jobs]
  BY DEF CallsOK
<1>. QED BY <1>1, <1>2, <1>3 DEF CallsOK

-------------------------------------------------------------------------------
(* Every step keeps the types                                               *)

LEMMA OnlyCalls ==
  ASSUME Types, FlagsOK', LockOK', CallsOK',
         trials' = trials, asked' = asked, journal' = journal, cursor' = cursor,
         mailbox' = mailbox
  PROVE  Types'
BY StudyKept, StoreKept, MailKept DEF Types

LEMMA AskTypes ==
  ASSUME AskTellAssumption, Types, NEW c \in Clients, Ask(c)
  PROVE  Types'
<1>. USE DEF Types
<1>1. CASE Reserve(c)
  <2>1. PICK m \in 0..Trials : trials \in [0..(m - 1) -> States]
    BY DEF StudyOK
  <2>2. NextNumber = m /\ m < Trials /\ DOMAIN trials = 0..(m - 1)
    BY <1>1, <2>1, Numbering DEF Reserve, MayReserve
  <2>3. m + 1 \in 0..Trials /\ (m + 1) - 1 = m /\ NextNumber \in Numbers
    BY <2>1, <2>2 DEF Numbers, AskTellAssumption
  <2>4. trials' \in [0..((m + 1) - 1) -> States]
    <3>1. DOMAIN trials \cup {NextNumber} = 0..m
      BY <2>2, Numbering
    <3>2. \A k \in 0..m : (IF k = NextNumber THEN Running ELSE trials[k]) \in States
      BY <2>1, <2>2, <3>1 DEF States
    <3>3. trials' = [k \in 0..m |-> IF k = NextNumber THEN Running ELSE trials[k]]
      BY <1>1, <3>1 DEF Reserve, Recorded
    <3>. QED BY <2>3, <3>2, <3>3
  <2>5. StudyOK'
    <3>1. asked' \subseteq DOMAIN trials'
      BY <1>1 DEF Reserve, Recorded, StudyOK
    <3>. QED BY <2>3, <2>4, <3>1 DEF StudyOK, States, Running, Cancelled, Outcomes
  <2>6. /\ Goto(c, "reserved") /\ Load(c, [trial |-> NextNumber, state |-> Running])
        /\ pc[c] = "idle"
    BY <1>1 DEF Reserve, Calls
  <2>7. CallsOK'
    <3>1. [trial |-> NextNumber, state |-> Running] \in [trial : Numbers, state : {Running}]
      BY <2>3
    <3>2. [trial |-> NextNumber, state |-> Running] \in Jobs /\ "reserved" \in Places
      BY <3>1 DEF Jobs, Places
    <3>3. NextNumber \in DOMAIN trials' /\ Grows
      BY <1>1 DEF Reserve, Recorded, Grows
    <3>. QED BY <2>6, <3>1, <3>2, <3>3, CallsKept DEF Reporting, Ending
  <2>8. LockOK'
    BY <1>1, <2>6, LockKept DEF Reserve, Places
  <2>9. FlagsOK'
    BY <1>1 DEF Reserve, stream, FlagsOK, AskTellAssumption
  <2>. QED BY <1>1, <2>5, <2>7, <2>8, <2>9, StoreKept, MailKept DEF Reserve, stored, stream
<1>2. CASE SpaceExhausted(c)
  <2>. DEFINE j == [reason |-> "spaceExhausted", final |-> "Completed"]
  <2>1. Goto(c, "closing") /\ Load(c, j) /\ pc[c] = "idle"
    BY <1>2 DEF SpaceExhausted, Calls
  <2>2. j \in Closings /\ j \in Jobs /\ "closing" \in Places
    BY DEF Closings, Jobs, Places, Ending
  <2>. HIDE DEF j
  <2>3. CallsOK'
    BY <1>2, <2>1, <2>2, CallsKept DEF Reporting, SpaceExhausted, study, Grows
  <2>4. LockOK'
    BY <1>2, <2>1, <2>2, LockKept DEF SpaceExhausted
  <2>5. FlagsOK'
    BY <1>2 DEF SpaceExhausted, stream, study, FlagsOK
  <2>. QED BY <1>2, <2>3, <2>4, <2>5, OnlyCalls DEF SpaceExhausted, stored, stream, study
<1>3. CASE LoseSuggestion(c)
  <2>1. draws' \in 0..SpaceSize /\ interrupted' \in 0..Interrupts
    BY <1>3 DEF LoseSuggestion, Interruptible, FlagsOK, AskTellAssumption
  <2>2. FlagsOK'
    BY <1>3, <2>1 DEF LoseSuggestion, stream, study, FlagsOK
  <2>3. LockOK' /\ CallsOK'
    BY <1>3, NobodyMoved DEF LoseSuggestion, study, Grows
  <2>. QED BY <1>3, <2>2, <2>3, OnlyCalls DEF LoseSuggestion, stored, stream, study
<1>. QED BY <1>1, <1>2, <1>3 DEF Ask

LEMMA AnnounceTypes ==
  ASSUME AskTellAssumption, Types, NEW c \in Clients, AnnounceStarted(c)
  PROVE  Types'
<1>. USE DEF Types
<1>1. /\ job[c] \in [trial : Numbers, state : {Running}] /\ pc[c] = "reserved"
      /\ job[c].trial \in DOMAIN trials
  BY DEF AnnounceStarted, CallsOK, Fits
<1>2. MailOK'
  <2>1. Event("TrialStarted", job[c].trial) \in Events
    BY <1>1 DEF Event, Events, Tags
  <2>. QED BY <2>1, Offered DEF AnnounceStarted
<1>3. CallsOK'
  BY Returned DEF AnnounceStarted, study, Grows
<1>4. LockOK'
  BY <1>1, LockKept DEF AnnounceStarted, Return, Places
<1>5. StudyOK'
  <2>1. asked' \subseteq DOMAIN trials' /\ trials' = trials
    BY <1>1 DEF AnnounceStarted, study, StudyOK
  <2>. QED BY <2>1 DEF StudyOK, States, Running, Cancelled, Outcomes
<1>6. FlagsOK'
  BY DEF AnnounceStarted, study, FlagsOK
<1>. QED BY <1>2, <1>3, <1>4, <1>5, <1>6, StoreKept DEF AnnounceStarted, stored

LEMMA FinalizeTypes ==
  ASSUME AskTellAssumption, Types, NEW c \in Clients,
         Report(c) \/ Finalize(c)
  PROVE  Types'
<1>. USE DEF Types
<1>1. ASSUME NEW n \in asked, NEW s \in Outcomes, Tell(c, n, s) PROVE Types'
  <2>. DEFINE j == [trial |-> n, state |-> s]
  <2>1. Goto(c, "telling") /\ Load(c, j) /\ pc[c] = "idle" /\ Grows
    BY <1>1 DEF Tell, Calls, study, Grows
  <2>2. j \in Reports /\ j \in Jobs /\ j.trial \in asked /\ "telling" \in Places
    <3>1. n \in Numbers
      BY <1>1 DEF StudyOK, Numbers
    <3>. QED BY <3>1 DEF Reports, Jobs, Places, Reporting
  <2>. HIDE DEF j
  <2>3. CallsOK'
    BY <2>1, <2>2, CallsKept DEF Ending
  <2>4. LockOK'
    BY <1>1, <2>1, <2>2, LockKept DEF Tell
  <2>5. FlagsOK'
    BY <1>1 DEF Tell, stream, study, FlagsOK
  <2>. QED BY <1>1, <2>3, <2>4, <2>5, OnlyCalls DEF Tell, stored, stream, study
<1>2. CASE EnterFinalize(c)
  <2>1. CallsOK'
    <3>1. job[c] \in Reports /\ job[c].trial \in asked
      BY <1>2 DEF EnterFinalize, CallsOK, Fits, Reporting
    <3>2. "journaling" \in Places /\ Grows
      BY <1>2 DEF EnterFinalize, Places, Reporting, Grows, study
    <3>. QED BY <1>2, <3>1, <3>2, CallsMoved DEF EnterFinalize, Ending
  <2>2. LockOK'
    BY <1>2 DEF EnterFinalize, LockOK, CallsOK, Goto, AskTellAssumption
  <2>3. FlagsOK'
    BY <1>2 DEF EnterFinalize, stream, study, FlagsOK
  <2>. QED BY <1>2, <2>1, <2>2, <2>3, OnlyCalls DEF EnterFinalize, stored, stream, study
<1>3. CASE RefuseFinalize(c)
  <2>1. CallsOK'
    BY <1>3, Returned DEF RefuseFinalize, study, Grows
  <2>2. LockOK'
    BY <1>3, LockKept DEF RefuseFinalize, Return, Places
  <2>3. FlagsOK'
    BY <1>3 DEF RefuseFinalize, stream, study, FlagsOK
  <2>. QED BY <1>3, <2>1, <2>2, <2>3, OnlyCalls DEF RefuseFinalize, stored, stream, study
<1>4. CASE Journaled(c)
  <2>1. job[c] \in Reports /\ job[c].trial \in asked /\ job[c].trial \in DOMAIN trials
    BY <1>4 DEF Journaled, CallsOK, Fits, Reporting, StudyOK
  <2>2. StudyOK'
    <3>1. job[c].state \in States
      BY <2>1 DEF Reports, States
    <3>. QED BY <1>4, <2>1, <3>1, StudyRecorded DEF Journaled
  <2>3. CallsOK'
    <3>1. "recorded" \in Places /\ Grows
      BY <1>4 DEF Journaled, Places, Reporting, Grows, Recorded
    <3>. QED BY <1>4, <2>1, <3>1, CallsMoved DEF Journaled, Ending
  <2>4. LockOK'
    BY <1>4, Unlocked DEF Journaled, Places, Reporting
  <2>5. StoreOK'
    <3>1. journal' \in Seq(Reports) /\ cursor' \in 0..Len(journal')
      BY <1>4, <2>1 DEF Journaled, StoreOK
    <3>. QED BY <3>1 DEF StoreOK, Reports, Numbers, Outcomes
  <2>6. FlagsOK'
    BY <1>4 DEF Journaled, stream, FlagsOK
  <2>. QED BY <1>4, <2>2, <2>3, <2>4, <2>5, <2>6, MailKept DEF Journaled, stream
<1>5. CASE JournalFails(c)
  <2>1. job[c] \in Reports
    BY <1>5 DEF JournalFails, CallsOK, Fits, Reporting
  <2>2. CallsOK'
    BY <1>5, Returned DEF JournalFails, study, Grows
  <2>3. LockOK'
    BY <1>5, Unlocked DEF JournalFails, Return, Places
  <2>4. StoreOK'
    <3>1. journal' \in Seq(Reports) /\ cursor' \in 0..Len(journal')
      BY <1>5, <2>1 DEF JournalFails, StoreOK
    <3>. QED BY <3>1 DEF StoreOK, Reports, Numbers, Outcomes
  <2>5. FlagsOK'
    BY <1>5 DEF JournalFails, stream, study, FlagsOK
  <2>. QED BY <1>5, <2>2, <2>3, <2>4, <2>5, StudyKept, MailKept DEF JournalFails, stream, study
<1>6. CASE EmitOutcome(c)
  <2>1. job[c] \in Reports /\ job[c].trial \in asked /\ pc[c] = "recorded"
    BY <1>6 DEF EmitOutcome, CallsOK, Fits, Reporting
  <2>2. MailOK'
    <3>1. /\ Event("TrialCompleted", job[c].trial) \in Events
          /\ Event("TrialFailed", job[c].trial) \in Events
      BY <2>1 DEF Event, Events, Tags, Reports
    <3>. QED BY <1>6, <3>1, Offered DEF EmitOutcome
  <2>3. CallsOK'
    <3>1. "scoring" \in Places /\ "checking" \in Places /\ Grows
      BY <1>6 DEF EmitOutcome, study, Grows, Places, Reporting
    <3>. QED BY <1>6, <2>1, <3>1, CallsMoved DEF EmitOutcome, Ending, Reporting
  <2>4. LockOK'
    BY <1>6, <2>1, LockKept DEF EmitOutcome, Places, Reporting
  <2>5. FlagsOK'
    BY <1>6 DEF EmitOutcome, study, FlagsOK
  <2>. QED BY <1>6, <2>2, <2>3, <2>4, <2>5, StudyKept, StoreKept DEF EmitOutcome, study, stored
<1>7. CASE UpdateBest(c)
  <2>1. /\ job[c] \in Reports /\ job[c].trial \in asked /\ pc[c] = "scoring"
        /\ job[c].state.tag = "Completed"
    BY <1>7 DEF UpdateBest, CallsOK, Fits, Reporting
  <2>2. CallsOK'
    <3>1. "improved" \in Places /\ "checking" \in Places /\ Grows
      BY <1>7 DEF UpdateBest, study, Grows, Places, Reporting
    <3>. QED BY <1>7, <2>1, <3>1, CallsMoved DEF UpdateBest, Ending, Reporting
  <2>3. LockOK'
    BY <1>7, <2>1, LockKept DEF UpdateBest, Places, Reporting
  <2>4. FlagsOK'
    <3>1. best' \in Values \cup {None}
      <4>1. job[c].state.value \in Values
        BY <2>1 DEF Reports, Outcomes
      <4>. QED BY <1>7, <4>1 DEF UpdateBest, FlagsOK
    <3>. QED BY <1>7, <3>1 DEF UpdateBest, stream, study, FlagsOK
  <2>. QED BY <1>7, <2>2, <2>3, <2>4, OnlyCalls DEF UpdateBest, stored, stream, study
<1>8. CASE AnnounceBest(c)
  <2>1. job[c] \in Reports /\ pc[c] = "improved"
    BY <1>8 DEF AnnounceBest, CallsOK, Fits, Reporting
  <2>2. MailOK'
    <3>1. Event("BestUpdated", job[c].trial) \in Events
      BY <2>1 DEF Event, Events, Tags, Reports
    <3>. QED BY <1>8, <3>1, Offered DEF AnnounceBest
  <2>3. CallsOK'
    <3>1. "checking" \in Places /\ Grows
      BY <1>8 DEF AnnounceBest, study, Grows, Places
    <3>. QED BY <1>8, <3>1, CallsMoved DEF AnnounceBest, Ending, Reporting
  <2>4. LockOK'
    BY <1>8, <2>1, LockKept DEF AnnounceBest, Places
  <2>5. FlagsOK'
    BY <1>8 DEF AnnounceBest, study, FlagsOK
  <2>. QED BY <1>8, <2>2, <2>3, <2>4, <2>5, StudyKept, StoreKept DEF AnnounceBest, study, stored
<1>. QED BY <1>1, <1>2, <1>3, <1>4, <1>5, <1>6, <1>7, <1>8 DEF Report, Finalize

LEMMA EndTypes ==
  ASSUME AskTellAssumption, Types, NEW c \in Clients,
         CompleteIfBudgetReached(c) \/ Result(c) \/ Cancel(c) \/ PublishCompletion(c)
  PROVE  Types'
<1>. USE DEF Types
<1>. /\ \A j \in Closings : j \in Jobs
     /\ {"checking", "closing", "ending", "publishing", "sealing"} \subseteq Places
     /\ {"checking", "closing", "ending", "publishing", "sealing"} \cap Reporting = {}
  BY DEF Closings, Jobs, Places, Reporting, Ending
<1>1. CASE CompleteIfBudgetReached(c)
  <2>. DEFINE j == [reason |-> "budgetExhausted", final |-> "Completed"]
  <2>0. Grows /\ pc[c] = "checking" /\ j \in Closings
    BY <1>1 DEF CompleteIfBudgetReached, study, Grows, Closings
  <2>1. ASSUME Goto(c, "closing"), Load(c, j) PROVE LockOK' /\ CallsOK'
    <3>. HIDE DEF j
    <3>1. CallsOK'
      BY <2>0, <2>1, CallsKept
    <3>2. LockOK'
      BY <1>1, <2>0, <2>1, LockKept DEF CompleteIfBudgetReached
    <3>. QED BY <3>1, <3>2
  <2>2. ASSUME Return(c) PROVE LockOK' /\ CallsOK'
    <3>1. CallsOK'
      BY <2>0, <2>2, Returned
    <3>2. LockOK'
      BY <1>1, <2>0, <2>2, LockKept DEF CompleteIfBudgetReached, Return, Places
    <3>. QED BY <3>1, <3>2
  <2>3. LockOK' /\ CallsOK'
    BY <1>1, <2>1, <2>2 DEF CompleteIfBudgetReached
  <2>4. FlagsOK'
    BY <1>1 DEF CompleteIfBudgetReached, stream, study, FlagsOK
  <2>. QED BY <1>1, <2>3, <2>4, OnlyCalls DEF CompleteIfBudgetReached, stored, stream, study
<1>2. CASE Result(c)
  <2>0. Grows /\ pc[c] = "idle"
    BY <1>2 DEF Result, Calls, study, Grows
  <2>1. CallsOK'
    BY <1>2, <2>0, CallsMoved DEF Result, Ending
  <2>2. LockOK'
    BY <1>2, <2>0, LockKept DEF Result
  <2>3. FlagsOK'
    BY <1>2 DEF Result, stream, study, FlagsOK
  <2>. QED BY <1>2, <2>1, <2>2, <2>3, OnlyCalls DEF Result, stored, stream, study
<1>3. CASE Cancel(c)
  <2>. DEFINE j == [reason |-> "interrupted", final |-> "Cancelled"]
  <2>0. Grows /\ pc[c] = "idle" /\ j \in Closings /\ Goto(c, "closing") /\ Load(c, j)
    BY <1>3 DEF Cancel, Calls, study, Grows, Closings
  <2>. HIDE DEF j
  <2>1. CallsOK'
    BY <2>0, CallsKept
  <2>2. LockOK'
    BY <1>3, <2>0, LockKept DEF Cancel
  <2>3. FlagsOK'
    BY <1>3 DEF Cancel, stream, study, FlagsOK
  <2>. QED BY <1>3, <2>1, <2>2, <2>3, OnlyCalls DEF Cancel, stored, stream, study
<1>4. CASE SetReason(c)
  <2>0. Grows /\ pc[c] = "closing" /\ job[c] \in Closings
    BY <1>4 DEF SetReason, study, Grows, CallsOK, Fits, Ending
  <2>1. CallsOK'
    BY <1>4, <2>0, CallsMoved DEF SetReason
  <2>2. LockOK'
    BY <1>4, <2>0, LockKept DEF SetReason
  <2>3. FlagsOK'
    <3>1. job[c].reason \in Reasons
      BY <2>0 DEF Closings, Reasons
    <3>. QED BY <1>4, <3>1 DEF SetReason, stream, study, FlagsOK
  <2>. QED BY <1>4, <2>1, <2>2, <2>3, OnlyCalls DEF SetReason, stored, stream, study
<1>5. CASE EndStudy(c)
  <2>0. pc[c] = "ending" /\ job[c] \in Closings /\ job[c].final \in {"Completed", "Cancelled"}
    BY <1>5 DEF EndStudy, CallsOK, Fits, Ending, Closings
  <2>1. StudyOK' /\ Grows
    <3>1. PICK m \in 0..Trials : trials \in [0..(m - 1) -> States]
      BY DEF StudyOK
    <3>2. trials' \in [0..(m - 1) -> States]
      BY <1>5, <3>1 DEF EndStudy, CancelPending, States
    <3>3. asked' = asked /\ DOMAIN trials' = DOMAIN trials
      BY <1>5, <3>1, <3>2 DEF EndStudy
    <3>. QED BY <3>1, <3>2, <3>3 DEF StudyOK, Grows, States, Running, Cancelled, Outcomes
  <2>2. CallsOK'
    BY <1>5, <2>0, <2>1, CallsMoved DEF EndStudy
  <2>3. LockOK'
    BY <1>5, <2>0, LockKept DEF EndStudy
  <2>4. FlagsOK'
    BY <1>5, <2>0 DEF EndStudy, stream, FlagsOK
  <2>. QED BY <1>5, <2>1, <2>2, <2>3, <2>4, StoreKept, MailKept DEF EndStudy, stored, stream
<1>6. CASE DieEnding(c)
  <2>1. CallsOK'
    BY <1>6, Returned DEF DieEnding, study, Grows
  <2>2. LockOK'
    BY <1>6, LockKept DEF DieEnding, Return, Places
  <2>3. FlagsOK'
    BY <1>6 DEF DieEnding, stream, study, FlagsOK
  <2>. QED BY <1>6, <2>1, <2>2, <2>3, OnlyCalls DEF DieEnding, stored, stream, study
<1>7. CASE Publish(c)
  <2>0. Grows /\ pc[c] = "publishing" /\ job[c] \in Closings
    BY <1>7 DEF Publish, study, Grows, CallsOK, Fits, Ending
  <2>1. MailOK'
    <3>. DEFINE e == [tag |-> "Completed", trial |-> None, reason |-> job[c].reason]
    <3>1. e \in Events
      <4>1. job[c].reason \in Reasons
        BY <2>0 DEF Closings, Reasons
      <4>. QED BY <4>1 DEF Events, Reasons
    <3>2. mailbox' = mailbox \/ Offer(e)
      BY <1>7 DEF Publish
    <3>. HIDE DEF e
    <3>. QED BY <3>1, <3>2, Offered, MailKept
  <2>2. CallsOK'
    BY <1>7, <2>0, CallsMoved, Returned DEF Publish
  <2>3. LockOK'
    <3>1. Goto(c, "idle") \/ Goto(c, "sealing")
      BY <1>7 DEF Publish, Return
    <3>. QED BY <1>7, <2>0, <3>1, LockKept DEF Publish, Places
  <2>4. FlagsOK'
    BY <1>7 DEF Publish, study, FlagsOK
  <2>. QED BY <1>7, <2>1, <2>2, <2>3, <2>4, StudyKept, StoreKept DEF Publish, stored, study
<1>8. CASE EndQueue(c)
  <2>1. CallsOK'
    BY <1>8, Returned DEF EndQueue, study, Grows
  <2>2. LockOK'
    BY <1>8, LockKept DEF EndQueue, Return, Places
  <2>3. FlagsOK'
    BY <1>8 DEF EndQueue, study, FlagsOK
  <2>. QED BY <1>8, <2>1, <2>2, <2>3, OnlyCalls DEF EndQueue, stored, study
<1>. QED BY <1>1, <1>2, <1>3, <1>4, <1>5, <1>6, <1>7, <1>8 DEF PublishCompletion

LEMMA InterruptTypes ==
  ASSUME AskTellAssumption, Types, NEW c \in Clients, Interrupt(c)
  PROVE  Types'
<1>. USE DEF Types
<1>1. CallsOK'
  BY Returned DEF Interrupt, study, Grows
<1>2. LockOK'
  BY LockKept DEF Interrupt, Return, Places
<1>3. FlagsOK'
  <2>1. interrupted' \in 0..Interrupts
    BY DEF Interrupt, Interruptible, FlagsOK, AskTellAssumption
  <2>. QED BY <2>1 DEF Interrupt, stream, study, FlagsOK
<1>. QED BY <1>1, <1>2, <1>3, OnlyCalls DEF Interrupt, stored, stream, study

LEMMA CloseTypes == ASSUME Types, Close PROVE Types'
<1>. USE DEF Types
<1>1. LockOK' /\ CallsOK'
  BY NobodyMoved DEF Close, Grows
<1>2. FlagsOK'
  BY DEF Close, FlagsOK
<1>. QED BY <1>1, <1>2, OnlyCalls DEF Close, stored

LEMMA StutterTypes == ASSUME Types, UNCHANGED vars PROVE Types'
<1>. USE DEF Types
<1>1. LockOK' /\ CallsOK'
  BY NobodyMoved DEF vars, Grows
<1>2. FlagsOK'
  BY DEF vars, FlagsOK
<1>. QED BY <1>1, <1>2, OnlyCalls DEF vars

LEMMA NextTypes == ASSUME AskTellAssumption, Types, [Next]_vars PROVE Types'
BY AskTypes, AnnounceTypes, FinalizeTypes, EndTypes, InterruptTypes, CloseTypes, StutterTypes
   DEF Next, Continue

LEMMA TypesImply == ASSUME AskTellAssumption, Types PROVE TypeOK
<1>. USE DEF Types
<1>1. pc \in [Clients -> {"idle", "reserved", "checking"} \cup Reporting \cup Ending]
  BY DEF CallsOK, Places
<1>2. ASSUME NEW c \in Clients PROVE JobFits(c)
  <2>1. pc[c] \in Ending => "final" \in DOMAIN job[c]
    BY DEF CallsOK, Fits, Closings
  <2>. QED BY <2>1 DEF CallsOK, Fits, JobFits, Reports
<1>3. reason \in {None, "spaceExhausted", "budgetExhausted", "interrupted"}
  BY DEF FlagsOK, Reasons
<1>4. \E m \in 0..Trials : trials \in [0..(m - 1) -> {Running, Cancelled} \cup Outcomes]
  BY DEF StudyOK, States
<1>5. journal \in Seq([trial : Numbers, state : Outcomes]) /\ cursor \in 0..Len(journal)
  BY DEF StoreOK, Reports
<1>. QED
  BY <1>1, <1>2, <1>3, <1>4, <1>5 DEF TypeOK, FlagsOK, StudyOK, LockOK, MailOK, CallsOK

-------------------------------------------------------------------------------
(* Who does what                                                            *)

Step(c) ==
  Ask(c) \/ Report(c) \/ Result(c) \/ Cancel(c) \/ Continue(c) \/ Interrupt(c)

LEMMA NextIsStep == ASSUME Next PROVE Close \/ \E c \in Clients : Step(c)
BY DEF Next, Step

(* A fiber's step leaves the calls of the others alone.                     *)
LEMMA OthersWait ==
  ASSUME Types, NEW c \in Clients, Step(c), NEW d \in Clients, d # c
  PROVE  pc'[d] = pc[d] /\ job'[d] = job[d]
<1>1. \/ UNCHANGED <<pc, job>>
      \/ \E l \in Places \cup {"journaling"} : Goto(c, l) /\ (job' = job \/ \E j : Load(c, j))
  <2>1. CASE Ask(c)
    BY <2>1 DEF Ask, Reserve, SpaceExhausted, LoseSuggestion, Places, Ending
  <2>2. CASE Report(c) \/ Result(c) \/ Cancel(c) \/ Interrupt(c)
    BY <2>2 DEF Report, Tell, Result, Cancel, Interrupt, Return, Places, Reporting, Ending
  <2>3. CASE AnnounceStarted(c) \/ CompleteIfBudgetReached(c)
    BY <2>3 DEF AnnounceStarted, CompleteIfBudgetReached, Return, Places, Ending
  <2>4. CASE Finalize(c)
    BY <2>4 DEF Finalize, EnterFinalize, RefuseFinalize, Journaled, JournalFails, EmitOutcome,
                UpdateBest, AnnounceBest, Return, Places, Reporting
  <2>5. CASE PublishCompletion(c)
    BY <2>5 DEF PublishCompletion, SetReason, EndStudy, DieEnding, Publish, EndQueue, Return,
                Places, Ending
  <2>. QED BY <2>1, <2>2, <2>3, <2>4, <2>5 DEF Step, Continue
<1>. QED BY <1>1 DEF Goto, Load, Types, CallsOK

(* The steps that change the study or the journal.                          *)
LEMMA HistoryChanges ==
  ASSUME NEW c \in Clients, Step(c)
  PROVE  \/ UNCHANGED <<lifecycle, trials, journal>>
         \/ Reserve(c) \/ Journaled(c) \/ JournalFails(c) \/ EndStudy(c)
<1>1. CASE Ask(c)
  BY <1>1 DEF Ask, SpaceExhausted, LoseSuggestion, study, stored
<1>2. CASE Report(c) \/ Result(c) \/ Cancel(c) \/ Interrupt(c)
  BY <1>2 DEF Report, Tell, Result, Cancel, Interrupt, study, stored
<1>3. CASE AnnounceStarted(c) \/ CompleteIfBudgetReached(c)
  BY <1>3 DEF AnnounceStarted, CompleteIfBudgetReached, study, stored
<1>4. CASE Finalize(c)
  BY <1>4 DEF Finalize, EnterFinalize, RefuseFinalize, EmitOutcome, UpdateBest, AnnounceBest,
              study, stored
<1>5. CASE PublishCompletion(c)
  BY <1>5 DEF PublishCompletion, SetReason, DieEnding, Publish, EndQueue, study, stored
<1>. QED BY <1>1, <1>2, <1>3, <1>4, <1>5 DEF Step, Continue

-------------------------------------------------------------------------------
(* The study, the journal and the ledger                                    *)

(* The transaction that waits for the journal was entered by a running      *)
(* study with its trial pending, and nothing changes the study meanwhile.   *)
Deciding ==
  \A c \in Clients :
    pc[c] = "journaling" => lifecycle = "Running" /\ job[c].trial \in Pending

(* A cancelled study has no pending trial, unless its scope was closed, and  *)
(* then nobody uses it any more.                                            *)
GivenUp ==
  /\ lifecycle = "Cancelled" /\ open => Pending = {}
  /\ ~open => \A c \in Clients : pc[c] = "idle"

LEMMA NoOutcomeYet == /\ Running \notin Outcomes /\ Cancelled \notin Outcomes /\ Running # Cancelled
BY DEF Running, Cancelled, Outcomes

LEMMA DecidingKept ==
  ASSUME AskTellAssumption, Types, Deciding, [Next]_vars
  PROVE  Deciding'
<1>1. CASE UNCHANGED vars
  BY <1>1 DEF vars, Deciding, Pending
<1>2. CASE Close
  BY <1>2 DEF Close, Deciding
<1>3. ASSUME NEW c \in Clients, Step(c) PROVE Deciding'
  <2>1. SUFFICES ASSUME NEW d \in Clients, pc'[d] = "journaling"
                 PROVE  lifecycle' = "Running" /\ job'[d].trial \in Pending'
    BY DEF Deciding
  <2>2. CASE pc[d] = "journaling" /\ job'[d] = job[d]
    <3>1. lock = d /\ lock # None
      BY <2>2 DEF Types, LockOK, AskTellAssumption
    <3>2. ~Reserve(c) /\ ~EndStudy(c)
      BY <3>1 DEF Reserve, MayReserve, EndStudy
    <3>3. ASSUME Journaled(c) \/ JournalFails(c) PROVE FALSE
      <4>1. c = d
        BY <3>1, <3>3 DEF Journaled, JournalFails, Types, LockOK
      <4>. QED BY <2>1, <3>3, <4>1 DEF Journaled, JournalFails, Goto, Return, Types, CallsOK
    <3>4. lifecycle' = lifecycle /\ trials' = trials
      BY <1>3, <3>2, <3>3, HistoryChanges
    <3>. QED BY <2>2, <3>4 DEF Deciding, Pending
  <2>3. CASE d # c
    BY <1>3, <2>1, <2>2, <2>3, OthersWait
  <2>4. CASE d = c /\ EnterFinalize(c)
    BY <2>4 DEF EnterFinalize, study, Pending
  <2>5. CASE d = c /\ ~EnterFinalize(c)
    <3>. USE DEF Types, CallsOK, Goto, Return
    <3>1. CASE Ask(c)
      BY <2>1, <2>2, <2>5, <3>1 DEF Ask, Reserve, SpaceExhausted, LoseSuggestion
    <3>2. CASE Report(c) \/ Result(c) \/ Cancel(c) \/ Interrupt(c)
      BY <2>1, <2>5, <3>2 DEF Report, Tell, Result, Cancel, Interrupt
    <3>3. CASE AnnounceStarted(c) \/ CompleteIfBudgetReached(c)
      BY <2>1, <2>5, <3>3 DEF AnnounceStarted, CompleteIfBudgetReached
    <3>4. CASE Finalize(c)
      BY <2>1, <2>5, <3>4 DEF Finalize, RefuseFinalize, Journaled, JournalFails, EmitOutcome,
                              UpdateBest, AnnounceBest
    <3>5. CASE PublishCompletion(c)
      BY <2>1, <2>5, <3>5 DEF PublishCompletion, SetReason, EndStudy, DieEnding, Publish, EndQueue
    <3>. QED BY <1>3, <3>1, <3>2, <3>3, <3>4, <3>5 DEF Step, Continue
  <2>. QED BY <2>3, <2>4, <2>5
<1>. QED BY <1>1, <1>2, <1>3, NextIsStep

(* Nobody works on a closed handle.                                        *)
LEMMA OpenStays == ASSUME GivenUp, NEW c \in Clients, Step(c) PROVE open' = open /\ open
<1>1. open
  <2>1. open \/ pc[c] # "idle"
    BY DEF Step, Ask, Reserve, SpaceExhausted, LoseSuggestion, Report, Tell, Result,
         Cancel, Calls, Interrupt, Continue, AnnounceStarted, CompleteIfBudgetReached, Finalize,
         EnterFinalize, RefuseFinalize, Journaled, JournalFails, EmitOutcome, UpdateBest,
         AnnounceBest, PublishCompletion, SetReason, EndStudy, DieEnding, Publish, EndQueue
  <2>. QED BY <2>1 DEF GivenUp
<1>2. ASSUME Ask(c) \/ Report(c) \/ Result(c) \/ Cancel(c) \/ Interrupt(c) PROVE open' = open
  BY <1>2 DEF Ask, Reserve, SpaceExhausted, LoseSuggestion, Report, Tell, Result, Cancel, Interrupt
<1>3. ASSUME AnnounceStarted(c) \/ CompleteIfBudgetReached(c) PROVE open' = open
  BY <1>3 DEF AnnounceStarted, CompleteIfBudgetReached
<1>4. ASSUME Finalize(c) PROVE open' = open
  BY <1>4 DEF Finalize, EnterFinalize, RefuseFinalize, Journaled, JournalFails, EmitOutcome,
              UpdateBest, AnnounceBest
<1>5. ASSUME PublishCompletion(c) PROVE open' = open
  BY <1>5 DEF PublishCompletion, SetReason, EndStudy, DieEnding, Publish, EndQueue
<1>. QED BY <1>1, <1>2, <1>3, <1>4, <1>5 DEF Step, Continue

LEMMA GivenUpKept ==
  ASSUME AskTellAssumption, Types, Deciding, GivenUp, [Next]_vars
  PROVE  GivenUp'
<1>1. CASE UNCHANGED vars
  BY <1>1 DEF vars, GivenUp, Pending
<1>2. CASE Close
  BY <1>2 DEF Close, GivenUp
<1>3. ASSUME NEW c \in Clients, Step(c) PROVE GivenUp'
  <2>1. open' = open /\ open
    BY <1>3, OpenStays
  <2>2. ASSUME lifecycle' = "Cancelled" PROVE Pending' = {}
    <3>1. CASE UNCHANGED <<lifecycle, trials, journal>>
      BY <2>1, <2>2, <3>1 DEF GivenUp, Pending
    <3>2. CASE Reserve(c)
      BY <2>2, <3>2 DEF Reserve, MayReserve
    <3>3. CASE Journaled(c)
      BY <2>2, <3>3 DEF Journaled, Deciding
    <3>4. CASE JournalFails(c)
      BY <2>1, <2>2, <3>4 DEF JournalFails, GivenUp, Pending, study
    <3>5. CASE EndStudy(c)
      BY <2>2, <3>5, NoOutcomeYet DEF EndStudy, Pending, CancelPending
    <3>. QED BY <1>3, <3>1, <3>2, <3>3, <3>4, <3>5, HistoryChanges
  <2>. QED BY <2>1, <2>2 DEF GivenUp
<1>. QED BY <1>1, <1>2, <1>3, NextIsStep

(* What has an outcome keeps it.                                            *)
LEMMA OutcomesFinal ==
  ASSUME AskTellAssumption, Types, Deciding, [Next]_vars,
         NEW n \in DOMAIN trials
  PROVE  /\ n \in DOMAIN trials'
         /\ trials[n] \in Outcomes => trials'[n] = trials[n]
<1>1. CASE UNCHANGED vars
  BY <1>1 DEF vars
<1>2. CASE Close
  BY <1>2 DEF Close
<1>3. ASSUME NEW c \in Clients, Step(c)
      PROVE  n \in DOMAIN trials' /\ (trials[n] \in Outcomes => trials'[n] = trials[n])
  <2>1. CASE Reserve(c)
    <3>1. NextNumber \notin DOMAIN trials
      <4>1. PICK m \in 0..Trials : trials \in [0..(m - 1) -> States]
        BY DEF Types, StudyOK
      <4>. QED BY <4>1, Numbering
    <3>. QED BY <2>1, <3>1 DEF Reserve, Recorded
  <2>2. CASE Journaled(c)
    BY <2>2, NoOutcomeYet DEF Journaled, Recorded, Deciding, Pending
  <2>3. CASE JournalFails(c)
    BY <2>3 DEF JournalFails, study
  <2>4. CASE EndStudy(c)
    BY <2>4, NoOutcomeYet DEF EndStudy, CancelPending
  <2>. QED BY <1>3, <2>1, <2>2, <2>3, <2>4, HistoryChanges
<1>. QED BY <1>1, <1>2, <1>3, NextIsStep

LEMMA JournaledKept ==
  ASSUME AskTellAssumption, Types, Deciding, HistoryIsJournaled, [Next]_vars
  PROVE  HistoryIsJournaled'
<1>1. CASE UNCHANGED vars
  BY <1>1 DEF vars, HistoryIsJournaled, Outcomes
<1>2. CASE Close
  BY <1>2 DEF Close, stored, HistoryIsJournaled, Outcomes
<1>3. ASSUME NEW c \in Clients, Step(c) PROVE HistoryIsJournaled'
  <2>1. CASE UNCHANGED <<lifecycle, trials, journal>>
    BY <2>1 DEF HistoryIsJournaled, Outcomes
  <2>2. CASE Reserve(c)
    BY <2>2, NoOutcomeYet DEF Reserve, Recorded, stored, HistoryIsJournaled, Outcomes
  <2>3. ASSUME AppendsAtTail(job[c].trial), journal' = Append(journal, job[c]), pc[c] = "journaling"
        PROVE  /\ \A i \in DOMAIN journal : i \in DOMAIN journal' /\ journal'[i] = journal[i]
               /\ \E i \in DOMAIN journal' : journal'[i] = job[c]
               /\ \A i, j \in DOMAIN journal' : journal'[i].trial = journal'[j].trial => i = j
    <3>1. journal \in Seq(Reports) /\ job[c] \in Reports
      BY <2>3 DEF Types, StoreOK, CallsOK, Fits, Reporting
    <3>2. /\ DOMAIN journal = 1..Len(journal) /\ Len(journal) \in Nat
          /\ DOMAIN journal' = 1..(Len(journal) + 1)
          /\ \A i \in 1..Len(journal) : journal'[i] = journal[i]
          /\ journal'[Len(journal) + 1] = job[c]
      BY <2>3, <3>1
    <3>3. ASSUME NEW i \in DOMAIN journal', NEW j \in DOMAIN journal',
                 journal'[i].trial = journal'[j].trial
          PROVE  i = j
      <4>1. CASE i \in DOMAIN journal /\ j \in DOMAIN journal
        BY <3>2, <3>3, <4>1 DEF HistoryIsJournaled
      <4>2. CASE i = Len(journal) + 1 \/ j = Len(journal) + 1
        BY <2>3, <3>2, <3>3, <4>2 DEF AppendsAtTail
      <4>. QED BY <3>2, <4>1, <4>2
    <3>. QED BY <3>2, <3>3
  <2>4. CASE Journaled(c)
    <3>1. /\ \A i \in DOMAIN journal : i \in DOMAIN journal' /\ journal'[i] = journal[i]
          /\ \E i \in DOMAIN journal' : journal'[i] = job[c]
          /\ \A i, j \in DOMAIN journal' : journal'[i].trial = journal'[j].trial => i = j
      BY <2>3, <2>4 DEF Journaled, HistoryIsJournaled
    <3>2. job[c] = [trial |-> job[c].trial, state |-> job[c].state]
      BY <2>4 DEF Journaled, Types, CallsOK, Fits, Reporting, Reports
    <3>3. ASSUME NEW n \in DOMAIN trials', trials'[n] \in Outcomes
          PROVE  \E i \in DOMAIN journal' : journal'[i] = [trial |-> n, state |-> trials'[n]]
      <4>1. CASE n = job[c].trial
        BY <2>4, <3>1, <3>2, <4>1 DEF Journaled, Recorded
      <4>2. CASE n # job[c].trial
        <5>1. n \in DOMAIN trials /\ trials'[n] = trials[n]
          BY <2>4, <3>3, <4>2 DEF Journaled, Recorded
        <5>2. PICK i \in DOMAIN journal : journal[i] = [trial |-> n, state |-> trials[n]]
          BY <3>3, <5>1 DEF HistoryIsJournaled
        <5>. QED BY <3>1, <5>1, <5>2
      <4>. QED BY <4>1, <4>2
    <3>. QED BY <3>1, <3>3 DEF HistoryIsJournaled, Outcomes
  <2>5. CASE JournalFails(c)
    <3>1. /\ \A i \in DOMAIN journal : i \in DOMAIN journal' /\ journal'[i] = journal[i]
          /\ \A i, j \in DOMAIN journal' : journal'[i].trial = journal'[j].trial => i = j
      BY <2>3, <2>5 DEF JournalFails, HistoryIsJournaled
    <3>2. trials' = trials
      BY <2>5 DEF JournalFails, study
    <3>3. ASSUME NEW n \in DOMAIN trials', trials'[n] \in Outcomes
          PROVE  \E i \in DOMAIN journal' : journal'[i] = [trial |-> n, state |-> trials'[n]]
      <4>1. PICK i \in DOMAIN journal : journal[i] = [trial |-> n, state |-> trials[n]]
        BY <3>2, <3>3 DEF HistoryIsJournaled
      <4>. QED BY <3>1, <3>2, <4>1
    <3>. QED BY <3>1, <3>3 DEF HistoryIsJournaled, Outcomes
  <2>6. CASE EndStudy(c)
    <3>1. \A n \in DOMAIN trials' : trials'[n] \in Outcomes =>
            n \in DOMAIN trials /\ trials'[n] = trials[n]
      BY <2>6, NoOutcomeYet DEF EndStudy, CancelPending
    <3>2. journal' = journal
      BY <2>6 DEF EndStudy, stored
    <3>. QED BY <3>1, <3>2 DEF HistoryIsJournaled, Outcomes
  <2>. QED BY <1>3, <2>1, <2>2, <2>4, <2>5, <2>6, HistoryChanges
<1>. QED BY <1>1, <1>2, <1>3, NextIsStep

-------------------------------------------------------------------------------
(* The ledger's steps                                                       *)

LEMMA ReserveLedger ==
  ASSUME AskTellAssumption, Types, NEW c \in Clients, Reserve(c)
  PROVE  [Ledger!Next]_(Ledger!vars)
<1>1. PICK m \in 0..Trials : trials \in [0..(m - 1) -> States]
  BY DEF Types, StudyOK
<1>2. m # Trials
  BY <1>1, Numbering DEF Reserve, MayReserve, AskTellAssumption
<1>3. NextNumber \in 0..(Trials - 1) /\ NextNumber \notin DOMAIN trials
  BY <1>1, <1>2, Numbering DEF AskTellAssumption
<1>4. Ledger!Reserve(NextNumber)
  BY <1>3 DEF Reserve, MayReserve, Recorded, Ledger!Reserve, Ledger!With
<1>. QED BY <1>3, <1>4 DEF Ledger!Next

LEMMA JournaledLedger ==
  ASSUME Types, Deciding, NEW c \in Clients, Journaled(c)
  PROVE  [Ledger!Next]_(Ledger!vars)
<1>1. lifecycle = "Running" /\ job[c].trial \in DOMAIN trials /\ trials[job[c].trial] = Running
  BY DEF Journaled, Deciding, Pending
<1>2. job[c].state \in Outcomes
  BY DEF Journaled, Types, CallsOK, Fits, Reporting, Reports
<1>3. Ledger!Finish(job[c].trial, job[c].state)
  BY <1>1 DEF Journaled, Recorded, Ledger!Finish, Ledger!With
<1>. QED BY <1>1, <1>2, <1>3 DEF Ledger!Next

(* A study that has ended as it is to end stays as it is.                   *)
LEMMA EndLedger ==
  ASSUME AskTellAssumption, Types, GivenUp, NEW c \in Clients, EndStudy(c)
  PROVE  [Ledger!Next]_(Ledger!vars)
<1>1. job[c] \in Closings /\ open
  BY DEF EndStudy, Types, CallsOK, Fits, Ending, GivenUp
<1>2. job[c].final \in {"Completed", "Cancelled"}
  BY <1>1 DEF Closings
<1>3. CASE lifecycle = "Running"
  <2>1. Ledger!End(job[c].final)
    BY <1>2, <1>3 DEF EndStudy, CancelPending, Ledger!End, Ledger!GiveUp
  <2>. QED BY <1>2, <2>1 DEF Ledger!Next
<1>4. CASE lifecycle # "Running"
  <2>1. lifecycle = job[c].final
    BY <1>2, <1>4 DEF EndStudy, Legal, CanTransition, Types, FlagsOK
  <2>2. trials' = trials
    <3>1. CASE job[c].final # "Cancelled"
      BY <3>1 DEF EndStudy
    <3>2. CASE job[c].final = "Cancelled"
      <4>1. \A n \in DOMAIN trials : trials[n] # Running
        BY <1>1, <2>1, <3>2 DEF GivenUp, Pending
      <4>2. trials = [n \in DOMAIN trials |-> trials[n]]
        BY DEF Types, StudyOK
      <4>3. CancelPending = [n \in DOMAIN trials |-> trials[n]]
        BY <4>1 DEF CancelPending
      <4>. QED BY <3>2, <4>2, <4>3 DEF EndStudy
    <3>. QED BY <3>1, <3>2
  <2>. QED BY <2>1, <2>2 DEF EndStudy, Ledger!vars
<1>. QED BY <1>3, <1>4

LEMMA NextLedger ==
  ASSUME AskTellAssumption, Types, Deciding, GivenUp, [Next]_vars
  PROVE  [Ledger!Next]_(Ledger!vars)
<1>1. CASE UNCHANGED vars
  BY <1>1 DEF vars, Ledger!vars
<1>2. CASE Close
  <2>1. CASE lifecycle = "Running"
    <3>1. Ledger!End("Cancelled")
      BY <1>2, <2>1 DEF Close, CanTransition, Ledger!End
    <3>. QED BY <3>1 DEF Ledger!Next
  <2>2. CASE lifecycle # "Running"
    BY <1>2, <2>2 DEF Close, CanTransition, Types, FlagsOK, Ledger!vars
  <2>. QED BY <2>1, <2>2
<1>3. ASSUME NEW c \in Clients, Step(c) PROVE [Ledger!Next]_(Ledger!vars)
  <2>1. CASE UNCHANGED <<lifecycle, trials, journal>>
    BY <2>1 DEF Ledger!vars
  <2>2. CASE JournalFails(c)
    BY <2>2 DEF JournalFails, study, Ledger!vars
  <2>. QED BY <1>3, <2>1, <2>2, ReserveLedger, JournaledLedger, EndLedger, HistoryChanges
<1>. QED BY <1>1, <1>2, <1>3, NextIsStep

-------------------------------------------------------------------------------
(* The event stream                                                         *)

LEMMA Offering ==
  ASSUME Types, NEW e, Offer(e)
  PROVE  \/ ended /\ mailbox' = mailbox
         \/ /\ ~ended /\ Len(mailbox) \in Nat /\ DOMAIN mailbox = 1..Len(mailbox)
            /\ DOMAIN mailbox' = 1..(Len(mailbox) + 1)
            /\ \A i \in 1..Len(mailbox) : mailbox'[i] = mailbox[i]
            /\ mailbox'[Len(mailbox) + 1] = e
<1>1. mailbox \in Seq(Events)
  BY DEF Types, MailOK
<1>2. CASE ended
  BY <1>2 DEF Offer
<1>3. CASE ~ended
  <2>1. mailbox' = Append(mailbox, e)
    BY <1>3 DEF Offer
  <2>2. /\ Len(mailbox) \in Nat /\ DOMAIN mailbox = 1..Len(mailbox)
        /\ DOMAIN mailbox' = 1..(Len(mailbox) + 1)
        /\ \A i \in 1..Len(mailbox) : mailbox'[i] = mailbox[i]
        /\ mailbox'[Len(mailbox) + 1] = e
    BY <1>1, <2>1
  <2>. QED BY <1>3, <2>2
<1>. QED BY <1>2, <1>3

(* Where a call holds a promise about the stream, and the steps that        *)
(* neither speak nor give such a promise nor take one.                      *)
Speaking == {"reserved", "recorded", "scoring", "improved", "publishing", "sealing"}

Quiet(c) ==
  /\ UNCHANGED <<lifecycle, trials, asked, stream, best>>
  /\ pc'[c] \notin Speaking \/ (pc'[c] = pc[c] /\ job'[c] = job[c])
  /\ interrupted' = 0 => interrupted = 0 /\ pc[c] \notin Speaking

LEMMA Speaks ==
  ASSUME AskTellAssumption, Types, NEW c \in Clients, Step(c)
  PROVE  \/ Reserve(c) \/ AnnounceStarted(c) \/ Journaled(c) \/ EmitOutcome(c) \/ UpdateBest(c)
         \/ AnnounceBest(c) \/ EndStudy(c) \/ Publish(c) \/ EndQueue(c)
         \/ Quiet(c)
<1>. USE DEF Quiet, Speaking, study, stream, Return, Goto, Types, CallsOK, FlagsOK
<1>1. ASSUME Interruptible PROVE interrupted' # 0
  BY <1>1 DEF Interruptible, AskTellAssumption
<1>2. CASE SpaceExhausted(c) \/ LoseSuggestion(c)
  BY <1>1, <1>2 DEF SpaceExhausted, LoseSuggestion, Calls
<1>3. CASE Report(c) \/ Result(c) \/ Cancel(c)
  BY <1>3 DEF Report, Tell, Result, Cancel, Calls
<1>4. CASE Interrupt(c)
  BY <1>1, <1>4 DEF Interrupt
<1>5. CASE CompleteIfBudgetReached(c)
  BY <1>5 DEF CompleteIfBudgetReached
<1>6. CASE EnterFinalize(c) \/ RefuseFinalize(c)
  BY <1>6 DEF EnterFinalize, RefuseFinalize
<1>7. CASE JournalFails(c)
  BY <1>7 DEF JournalFails
<1>8. CASE SetReason(c) \/ DieEnding(c)
  BY <1>8 DEF SetReason, DieEnding
<1>. QED
  BY <1>2, <1>3, <1>4, <1>5, <1>6, <1>7, <1>8
  DEF Step, Ask, Continue, Finalize, PublishCompletion

(* The completion: who is sealing the queue has offered it, alone and       *)
(* before the queue was ended.                                              *)
Sealed ==
  /\ \A c, d \in Clients : pc[c] = "sealing" /\ pc[d] = "sealing" => c = d
  /\ \A c \in Clients : pc[c] = "sealing" => ~published /\ Completions # {}
  /\ \A c \in Clients : pc[c] \in {"publishing", "sealing"} => lifecycle # "Running"
  /\ published => Completions # {}
  /\ Completions # {} => lifecycle # "Running"
  /\ open /\ ended => published

(* No completion but the one that closes the queue, or is about to, and     *)
(* those of the publishers cut short.                                       *)
Sealers == IF published \/ Sealing THEN 1 ELSE 0

Single == Cardinality(Completions) <= Cut + Sealers

(* What an offer does to the completions.                                   *)
LEMMA CompletionOffered ==
  ASSUME Types, NEW e, Offer(e)
  PROVE  /\ e.tag # "Completed" => Completions' = Completions
         /\ e.tag = "Completed" /\ ~ended => Completions' = Completions \cup {Len(mailbox) + 1}
<1>1. CASE ended /\ mailbox' = mailbox
  BY <1>1 DEF Completions
<1>2. CASE /\ ~ended /\ Len(mailbox) \in Nat /\ DOMAIN mailbox = 1..Len(mailbox)
           /\ DOMAIN mailbox' = 1..(Len(mailbox) + 1)
           /\ \A i \in 1..Len(mailbox) : mailbox'[i] = mailbox[i]
           /\ mailbox'[Len(mailbox) + 1] = e
  <2>1. /\ Completions = {i \in 1..Len(mailbox) : mailbox[i].tag = "Completed"}
        /\ Completions' = {i \in 1..(Len(mailbox) + 1) : mailbox'[i].tag = "Completed"}
    BY <1>2 DEF Completions
  <2>. QED BY <1>2, <2>1
<1>. QED BY <1>1, <1>2, Offering

LEMMA SealedKept ==
  ASSUME AskTellAssumption, Types, GivenUp, Sealed, [Next]_vars
  PROVE  Sealed'
<1>1. CASE UNCHANGED vars
  BY <1>1 DEF vars, Sealed, Completions, Sealing
<1>2. CASE Close
  BY <1>2 DEF Close, Sealed, Completions, Sealing, CanTransition
<1>3. ASSUME NEW c \in Clients, Step(c) PROVE Sealed'
  <2>0. /\ \A d \in Clients : d # c => pc'[d] = pc[d]
        /\ open' = open /\ open
    BY <1>3, OthersWait, OpenStays
  <2>1. ASSUME pc[c] # "sealing", pc'[c] \notin {"publishing", "sealing"},
               published' = published, ended' = ended, Completions' = Completions,
               lifecycle' = lifecycle, interrupted' = interrupted
        PROVE  Sealed'
    BY <2>0, <2>1 DEF Sealed, Sealing
  <2>2. CASE Quiet(c)
    BY <2>0, <2>2 DEF Quiet, Sealed, Sealing, Speaking, stream, Completions
  <2>4. ASSUME pc[c] # "sealing", Return(c) \/ \E l \in Places \ {"publishing", "sealing"} : Goto(c, l)
        PROVE  pc'[c] \notin {"publishing", "sealing"}
    BY <2>4 DEF Return, Goto, Types, CallsOK
  <2>5. CASE Reserve(c) \/ Journaled(c) \/ UpdateBest(c)
    <3>1. pc[c] # "sealing" /\ pc'[c] \notin {"publishing", "sealing"}
      BY <2>4, <2>5 DEF Reserve, Calls, Journaled, UpdateBest, Places, Reporting
    <3>. QED BY <2>1, <2>5, <3>1 DEF Reserve, Journaled, UpdateBest, stream, study, Completions
  <2>6. CASE AnnounceStarted(c) \/ EmitOutcome(c) \/ AnnounceBest(c)
    <3>1. pc[c] # "sealing" /\ pc'[c] \notin {"publishing", "sealing"}
      BY <2>4, <2>6 DEF AnnounceStarted, EmitOutcome, AnnounceBest, Places, Reporting
    <3>2. PICK tag, n : tag \in Tags /\ Offer(Event(tag, n))
      BY <2>6 DEF AnnounceStarted, EmitOutcome, AnnounceBest, Tags
    <3>3. Completions' = Completions
      BY <3>2, CompletionOffered DEF Event, Tags
    <3>. QED BY <2>1, <2>6, <3>1, <3>3 DEF AnnounceStarted, EmitOutcome, AnnounceBest, study
  <2>7. CASE EndStudy(c)
    <3>1. pc[c] = "ending" /\ pc'[c] = "publishing"
      BY <2>7 DEF EndStudy, Goto, Types, CallsOK
    <3>2. lifecycle' # "Running"
      BY <2>7, <3>1 DEF EndStudy, Types, CallsOK, Fits, Ending, Closings
    <3>3. Completions' = Completions
      BY <2>7 DEF EndStudy, stream, Completions
    <3>. QED BY <2>0, <2>7, <3>1, <3>2, <3>3 DEF EndStudy, stream, Sealed, Sealing
  <2>8. CASE Publish(c)
    <3>1. CASE published
      <4>1. pc[c] = "publishing" /\ pc'[c] = "idle" /\ mailbox' = mailbox
        BY <2>8, <3>1 DEF Publish, Return, Goto, Types, CallsOK
      <4>. QED BY <2>0, <2>1, <2>8, <4>1 DEF Publish, study, Completions
    <3>2. CASE ~published
      <4>1. pc[c] = "publishing" /\ pc'[c] = "sealing"
        BY <2>8, <3>2 DEF Publish, Goto, Types, CallsOK
      <4>2. ~ended
        BY <2>0, <3>2 DEF Sealed
      <4>3. Completions' = Completions \cup {Len(mailbox) + 1}
        BY <2>8, <3>2, <4>2, CompletionOffered DEF Publish
      <4>4. \A d \in Clients : pc[d] # "sealing"
        BY <2>8, <3>2 DEF Publish, Sealed, Sealing
      <4>. QED BY <2>0, <2>8, <3>2, <4>1, <4>2, <4>3, <4>4 DEF Publish, study, Sealed, Sealing
    <3>. QED BY <3>1, <3>2
  <2>9. CASE EndQueue(c)
    <3>1. pc[c] = "sealing" /\ pc'[c] = "idle" /\ published' = TRUE
      BY <2>9 DEF EndQueue, Return, Goto, Types, CallsOK
    <3>2. Completions' = Completions
      BY <2>9 DEF EndQueue, Completions
    <3>. QED BY <2>0, <2>9, <3>1, <3>2 DEF EndQueue, study, Sealed, Sealing
  <2>. QED BY <1>3, <2>2, <2>5, <2>6, <2>7, <2>8, <2>9, Speaks
<1>. QED BY <1>1, <1>2, <1>3, NextIsStep

(* The first to publish adds the completion; no other step changes it.       *)
LEMMA CompletionsChange ==
  ASSUME AskTellAssumption, Types, GivenUp, Sealed, NEW c \in Clients, Step(c)
  PROVE  \/ Completions' = Completions
         \/ Publish(c) /\ ~published /\ Completions' = Completions \cup {Len(mailbox) + 1}
<1>1. CASE Publish(c)
  <2>1. CASE published
    BY <1>1, <2>1 DEF Publish, Completions
  <2>2. CASE ~published
    <3>1. ~ended
      BY <1>1, <2>2, OpenStays DEF Sealed
    <3>. QED BY <1>1, <2>2, <3>1, CompletionOffered DEF Publish
  <2>. QED BY <2>1, <2>2
<1>2. CASE AnnounceStarted(c) \/ EmitOutcome(c) \/ AnnounceBest(c)
  <2>1. PICK tag, n : tag \in Tags /\ Offer(Event(tag, n))
    BY <1>2 DEF AnnounceStarted, EmitOutcome, AnnounceBest, Tags
  <2>. QED BY <2>1, CompletionOffered DEF Event, Tags
<1>3. CASE mailbox' = mailbox
  BY <1>3 DEF Completions
<1>. QED
  BY <1>1, <1>2, <1>3, Speaks
  DEF Reserve, Journaled, UpdateBest, EndStudy, EndQueue, Quiet, stream

(* A trial costs a draw and a lost suggestion a draw and an interruption.   *)
LEMMA CutChange ==
  ASSUME AskTellAssumption, Types, NEW c \in Clients, Step(c)
  PROVE  /\ Cut \in Int
         /\ Interrupt(c) => Cut' = Cut + 1
         /\ ~Interrupt(c) => Cut' = Cut
<1>0. draws \in Nat /\ interrupted \in Nat
  BY DEF Types, FlagsOK, AskTellAssumption
<1>1. PICK m \in 0..Trials : DOMAIN trials = 0..(m - 1)
  BY DEF Types, StudyOK
<1>2. Cardinality(DOMAIN trials) = m /\ m \in Nat /\ NextNumber = m
  BY <1>1, Numbering DEF AskTellAssumption
<1>3. Cut \in Int
  BY <1>0, <1>2 DEF Cut
<1>4. CASE Reserve(c)
  <2>1. DOMAIN trials' = 0..((m + 1) - 1) /\ m + 1 \in Nat
    BY <1>1, <1>2, <1>4 DEF Reserve, Recorded
  <2>2. Cardinality(DOMAIN trials') = m + 1
    BY <2>1, FS_Interval
  <2>3. draws' = draws + 1 /\ interrupted' = interrupted /\ ~Interrupt(c)
    BY <1>0, <1>4 DEF Reserve, Calls, Interrupt
  <2>. QED BY <1>0, <1>2, <1>3, <2>2, <2>3 DEF Cut
<1>5. CASE LoseSuggestion(c)
  <2>1. /\ draws' = draws + 1 /\ interrupted' = interrupted + 1 /\ trials' = trials
        /\ ~Interrupt(c)
    BY <1>5 DEF LoseSuggestion, Interruptible, Calls, study, Interrupt
  <2>. QED BY <1>0, <1>2, <1>3, <2>1 DEF Cut
<1>6. CASE Interrupt(c)
  <2>1. draws' = draws /\ interrupted' = interrupted + 1 /\ trials' = trials
    BY <1>6 DEF Interrupt, Interruptible, study
  <2>. QED BY <1>0, <1>2, <1>3, <1>6, <2>1 DEF Cut
<1>7. CASE Step(c) /\ ~Reserve(c) /\ ~LoseSuggestion(c) /\ ~Interrupt(c)
  <2>1. draws' = draws /\ interrupted' = interrupted
    BY <1>7
    DEF Step, Ask, SpaceExhausted, Report, Tell, Result, Cancel, Continue, AnnounceStarted,
        Finalize, EnterFinalize, RefuseFinalize, Journaled, JournalFails, EmitOutcome, UpdateBest,
        AnnounceBest, CompleteIfBudgetReached, PublishCompletion, SetReason, EndStudy, DieEnding,
        Publish, EndQueue
  <2>2. DOMAIN trials' = DOMAIN trials
    <3>1. CASE Journaled(c)
      <4>1. job[c].trial \in DOMAIN trials
        BY <3>1 DEF Journaled, Types, CallsOK, Fits, StudyOK, Reporting
      <4>. QED BY <3>1, <4>1 DEF Journaled, Recorded
    <3>2. CASE EndStudy(c)
      BY <3>2 DEF EndStudy, CancelPending
    <3>. QED BY <1>7, <3>1, <3>2, HistoryChanges DEF JournalFails, study
  <2>. QED BY <1>3, <1>7, <2>1, <2>2 DEF Cut
<1>. QED BY <1>3, <1>4, <1>5, <1>6, <1>7

(* Only an interruption takes the promise to end the queue away.            *)
LEMMA SealersStay ==
  ASSUME Types, NEW c \in Clients, Step(c), ~Interrupt(c), published \/ Sealing
  PROVE  published' \/ Sealing'
<1>1. published' = published \/ EndQueue(c)
  BY DEF Step, Ask, Reserve, SpaceExhausted, LoseSuggestion, Report, Tell, Result, Cancel, Continue,
         AnnounceStarted, Finalize, EnterFinalize, RefuseFinalize, Journaled, JournalFails,
         EmitOutcome, UpdateBest, AnnounceBest, CompleteIfBudgetReached, PublishCompletion,
         SetReason, EndStudy, DieEnding, Publish, stream
<1>2. CASE EndQueue(c)
  BY <1>2 DEF EndQueue
<1>3. ASSUME NEW d \in Clients, pc[d] = "sealing", d # c PROVE Sealing'
  BY <1>3, OthersWait DEF Sealing
<1>4. CASE pc[c] = "sealing"
  BY <1>2, <1>4
  DEF Step, Ask, Reserve, SpaceExhausted, LoseSuggestion, Report, Tell, Result, Cancel, Calls,
      Continue, AnnounceStarted, Finalize, EnterFinalize, RefuseFinalize, Journaled, JournalFails,
      EmitOutcome, UpdateBest, AnnounceBest, CompleteIfBudgetReached, PublishCompletion,
      SetReason, EndStudy, DieEnding, Publish
<1>. QED BY <1>1, <1>2, <1>3, <1>4 DEF Sealing

LEMMA CompletionsFinite ==
  ASSUME Types
  PROVE  IsFiniteSet(Completions) /\ Cardinality(Completions) \in Nat
<1>1. Len(mailbox) \in Nat /\ DOMAIN mailbox = 1..Len(mailbox)
  BY DEF Types, MailOK
<1>2. IsFiniteSet(1..Len(mailbox))
  BY <1>1, FS_Interval
<1>. QED BY <1>1, <1>2, FS_Subset, FS_CardinalityType DEF Completions

LEMMA SingleKept ==
  ASSUME AskTellAssumption, Types, GivenUp, Sealed, Single, [Next]_vars
  PROVE  Single'
<1>1. CASE UNCHANGED vars
  BY <1>1 DEF vars, Single, Sealers, Sealing, Completions, Cut
<1>2. CASE Close
  BY <1>2 DEF Close, Single, Sealers, Sealing, Completions, Cut
<1>3. ASSUME NEW c \in Clients, Step(c) PROVE Single'
  <2>1. /\ IsFiniteSet(Completions) /\ Cardinality(Completions) \in Nat /\ Cut \in Int
        /\ Sealers \in {0, 1} /\ Sealers' \in {0, 1}
        /\ Cardinality(Completions) <= Cut + Sealers
    BY <1>3, CompletionsFinite, CutChange DEF Sealers, Single
  <2>2. CASE Publish(c) /\ ~published /\ Completions' = Completions \cup {Len(mailbox) + 1}
    <3>1. Sealers = 0 /\ Sealers' = 1
      BY <2>2 DEF Publish, Goto, Types, CallsOK, Sealers, Sealing
    <3>2. Cut' = Cut
      BY <1>3, <2>2, CutChange DEF Publish, Interrupt, Interruptible, Types, FlagsOK, AskTellAssumption
    <3>3. Cardinality(Completions') \in {Cardinality(Completions), Cardinality(Completions) + 1}
      BY <2>1, <2>2, FS_AddElement
    <3>. QED BY <2>1, <3>1, <3>2, <3>3 DEF Single
  <2>3. CASE Completions' = Completions /\ Interrupt(c)
    <3>1. Cut' = Cut + 1
      BY <1>3, <2>3, CutChange
    <3>. QED BY <2>1, <2>3, <3>1 DEF Single
  <2>4. CASE Completions' = Completions /\ ~Interrupt(c)
    <3>1. Cut' = Cut
      BY <1>3, <2>4, CutChange
    <3>2. Sealers = 1 => Sealers' = 1
      BY <1>3, <2>4, SealersStay DEF Sealers
    <3>. QED BY <2>1, <2>4, <3>1, <3>2 DEF Single
  <2>. QED BY <1>3, <2>2, <2>3, <2>4, CompletionsChange
<1>. QED BY <1>1, <1>2, <1>3, NextIsStep

(* The story of each trial: a number on its way to its caller has not been  *)
(* given to anybody else; every event but the completion is about a trial   *)
(* somebody was given, and as long as the queue is open each of them has    *)
(* been announced; and who has recorded an outcome and not yet announced    *)
(* all of it is the only one, and the next event it owes is not there.      *)
Finishing == {"recorded", "scoring", "improved"}

Said(tag, n) == \E i \in DOMAIN mailbox : At(i, tag, n)

Owes(c) ==
  /\ trials[job[c].trial] = job[c].state
  /\ ~Said("BestUpdated", job[c].trial)
  /\ pc[c] = "recorded" =>
       ~Said("TrialCompleted", job[c].trial) /\ ~Said("TrialFailed", job[c].trial)
  /\ pc[c] # "recorded" /\ ~ended => Said("TrialCompleted", job[c].trial)

Story ==
  /\ \A c \in Clients : pc[c] = "reserved" => job[c].trial \notin asked
  /\ \A c, d \in Clients :
       pc[c] = "reserved" /\ pc[d] = "reserved" /\ job[c].trial = job[d].trial => c = d
  /\ \A i \in DOMAIN mailbox : mailbox[i].tag \in Tags => mailbox[i].trial \in asked
  /\ ~ended => \A n \in asked : Said("TrialStarted", n)
  /\ \A c \in Clients : pc[c] \in Finishing => Owes(c)
  /\ \A c, d \in Clients :
       pc[c] \in Finishing /\ pc[d] \in Finishing /\ job[c].trial = job[d].trial => c = d

(* Whoever offers an event offers a true one, and the others stay true.     *)
Truthful(i) ==
  \A n \in Numbers :
    LET before == 1..(i - 1) IN
    /\ At(i, "TrialStarted", n) => \A k \in before : mailbox[k].trial # n
    /\ Terminal(i, n) =>
         /\ \E k \in before : At(k, "TrialStarted", n)
         /\ \A k \in before : ~Terminal(k, n)
         /\ \E s \in Outcomes : trials[n] = s /\
              (s.tag = "Completed" <=> mailbox[i].tag = "TrialCompleted")
    /\ At(i, "BestUpdated", n) =>
         /\ \E k \in before : At(k, "TrialCompleted", n)
         /\ \A k \in before : ~At(k, "BestUpdated", n)

LEMMA AllTruthful ==
  /\ EventsTruthful <=> \A i \in DOMAIN mailbox : Truthful(i)
  /\ EventsTruthful' <=> \A i \in DOMAIN mailbox' : Truthful(i)'
BY DEF EventsTruthful, Truthful

LEMMA TruthKept ==
  ASSUME AskTellAssumption, Types, Deciding, Story, [Next]_vars,
         NEW i \in Nat, i \in DOMAIN mailbox, Truthful(i),
         \A k \in 1..i : mailbox'[k] = mailbox[k]
  PROVE  Truthful(i)'
<1>1. mailbox'[i] = mailbox[i] /\ \A k \in 1..(i - 1) : mailbox'[k] = mailbox[k]
  <2>1. i >= 1
    BY DEF Types, MailOK
  <2>. QED BY <2>1
<1>2. ASSUME NEW n \in Numbers, Terminal(i, n), NEW s \in Outcomes, trials[n] = s
      PROVE  trials'[n] = s
  <2>1. n \in DOMAIN trials
    BY <1>2 DEF Terminal, At, Story, Tags, Types, StudyOK
  <2>. QED BY <1>2, <2>1, OutcomesFinal
<1>. QED BY <1>1, <1>2 DEF Truthful, Terminal, At, Numbers, Outcomes

(* An offer of a true event keeps the stream true.                          *)
LEMMA OfferTruthful ==
  ASSUME AskTellAssumption, Types, Deciding, Story, EventsTruthful, [Next]_vars,
         NEW e, Offer(e),
         \A i \in Nat : /\ ~ended /\ i = Len(mailbox) + 1 /\ mailbox'[i] = e
                        /\ DOMAIN mailbox = 1..(i - 1)
                        /\ \A k \in 1..(i - 1) : mailbox'[k] = mailbox[k]
                        => Truthful(i)'
  PROVE  EventsTruthful'
<1>1. CASE ended /\ mailbox' = mailbox
  BY <1>1, AllTruthful, TruthKept DEF Types, MailOK
<1>2. CASE /\ ~ended /\ Len(mailbox) \in Nat /\ DOMAIN mailbox = 1..Len(mailbox)
           /\ DOMAIN mailbox' = 1..(Len(mailbox) + 1)
           /\ \A i \in 1..Len(mailbox) : mailbox'[i] = mailbox[i]
           /\ mailbox'[Len(mailbox) + 1] = e
  <2>1. ASSUME NEW i \in 1..Len(mailbox) PROVE Truthful(i)'
    BY <1>2, <2>1, AllTruthful, TruthKept
  <2>2. ASSUME NEW i \in Nat, i = Len(mailbox) + 1 PROVE Truthful(i)'
    BY <1>2, <2>2
  <2>3. ASSUME NEW i \in DOMAIN mailbox' PROVE Truthful(i)'
    BY <1>2, <2>1, <2>2
  <2>. QED BY <2>3, AllTruthful
<1>. QED BY <1>1, <1>2, Offering

LEMMA SilentTruthful ==
  ASSUME AskTellAssumption, Types, Deciding, Story, EventsTruthful, [Next]_vars, mailbox' = mailbox
  PROVE  EventsTruthful'
<1>1. ASSUME NEW i \in DOMAIN mailbox PROVE Truthful(i)'
  BY <1>1, AllTruthful, TruthKept DEF Types, MailOK
<1>. QED BY <1>1, AllTruthful


(* What a call owes it still owes when somebody else has spoken of another  *)
(* trial, or of the completion.                                             *)
LEMMA OwesKept ==
  ASSUME AskTellAssumption, Types, Deciding, [Next]_vars, ended => ended',
         NEW d \in Clients, pc[d] \in Finishing, Owes(d), pc'[d] = pc[d], job'[d] = job[d],
         \/ mailbox' = mailbox
         \/ \E e : /\ Offer(e)
                   /\ e.tag \in {"TrialStarted", "Completed"} \/ e.trial # job[d].trial
  PROVE  Owes(d)'
<1>1. trials'[job[d].trial] = trials[job[d].trial]
  <2>1. job[d].trial \in DOMAIN trials /\ job[d].state \in Outcomes
    BY DEF Types, CallsOK, Fits, StudyOK, Reports, Reporting, Finishing
  <2>. QED BY <2>1, OutcomesFinal DEF Owes
<1>2. CASE mailbox' = mailbox
  BY <1>1, <1>2 DEF Owes, Said, At
<1>3. ASSUME NEW e, Offer(e),
             e.tag \in {"TrialStarted", "Completed"} \/ e.trial # job[d].trial
      PROVE  Owes(d)'
  BY <1>1, <1>2, <1>3, Offering DEF Owes, Said, At
<1>. QED BY <1>2, <1>3

(* An accepted event adds itself to what has been said, and nothing else.   *)
LEMMA Says ==
  ASSUME Types, NEW e, Offer(e), NEW tag, NEW n
  PROVE  Said(tag, n)' <=> Said(tag, n) \/ (~ended /\ e.tag = tag /\ e.trial = n)
BY Offering DEF Said, At

LEMMA AnnounceStory ==
  ASSUME AskTellAssumption, Types, Deciding, Story, EventsTruthful, [Next]_vars,
         NEW c \in Clients, Step(c), AnnounceStarted(c)
  PROVE  Story' /\ EventsTruthful'
<1>0. PICK n : n = job[c].trial
  OBVIOUS
<1>1. /\ Offer(Event("TrialStarted", n)) /\ asked' = asked \cup {n} /\ ended' = ended
      /\ pc[c] = "reserved" /\ pc'[c] = "idle"
  BY <1>0 DEF AnnounceStarted, Return, Goto, Types, CallsOK
<1>2. n \in Numbers /\ n \notin asked /\ n # None
  BY <1>0, <1>1 DEF Types, CallsOK, Fits, Story, Numbers, AskTellAssumption
<1>3. \A d \in Clients : d # c => pc'[d] = pc[d] /\ job'[d] = job[d]
  BY OthersWait
<1>4. ASSUME NEW k \in DOMAIN mailbox PROVE mailbox[k].trial # n
  <2>1. mailbox[k] \in Events
    BY DEF Types, MailOK
  <2>. QED BY <1>2, <2>1 DEF Story, Events
<1>5. EventsTruthful'
  <2>1. ASSUME NEW i \in Nat, mailbox'[i] = Event("TrialStarted", n), DOMAIN mailbox = 1..(i - 1),
               \A k \in 1..(i - 1) : mailbox'[k] = mailbox[k]
        PROVE  Truthful(i)'
    BY <1>4, <2>1 DEF Truthful, At, Terminal, Event
  <2>. QED BY <1>1, <2>1, OfferTruthful
<1>6. ASSUME NEW d \in Clients, pc'[d] \in Finishing \cup {"reserved"}
      PROVE  d # c /\ pc[d] = pc'[d] /\ job[d] = job'[d]
  BY <1>1, <1>3, <1>6 DEF Finishing
<1>7. ASSUME NEW d \in Clients, pc'[d] \in Finishing PROVE Owes(d)'
  BY <1>1, <1>6, <1>7, OwesKept DEF Story, Event
<1>8. ASSUME NEW i \in DOMAIN mailbox', mailbox'[i].tag \in Tags PROVE mailbox'[i].trial \in asked'
  BY <1>1, <1>8, Offering DEF Story, Event
<1>9. ASSUME ~ended', NEW m \in asked' PROVE Said("TrialStarted", m)'
  BY <1>1, <1>9, Says DEF Story, Event
<1>10. ASSUME NEW d \in Clients, pc'[d] = "reserved" PROVE job'[d].trial \notin asked'
  BY <1>0, <1>1, <1>6, <1>10 DEF Story
<1>11. Story'
  BY <1>6, <1>7, <1>8, <1>9, <1>10 DEF Story
<1>. QED BY <1>5, <1>11

LEMMA OutcomeStory ==
  ASSUME AskTellAssumption, Types, Deciding, Story, EventsTruthful, [Next]_vars,
         NEW c \in Clients, Step(c), EmitOutcome(c)
  PROVE  Story' /\ EventsTruthful'
<1>0. PICK n, s : n = job[c].trial /\ s = job[c].state
  OBVIOUS
<1>. DEFINE tag == IF s.tag = "Completed" THEN "TrialCompleted" ELSE "TrialFailed"
<1>1. /\ Offer(Event(tag, n)) /\ asked' = asked /\ ended' = ended /\ trials' = trials /\ job' = job
      /\ pc[c] = "recorded" /\ pc'[c] \in {"scoring", "checking"}
      /\ pc'[c] = "scoring" => tag = "TrialCompleted"
  BY <1>0 DEF EmitOutcome, study, Goto, Types, CallsOK
<1>2. /\ n \in Numbers /\ n \in asked /\ s \in Outcomes /\ trials[n] = s
      /\ ~Said("BestUpdated", n) /\ ~Said("TrialCompleted", n) /\ ~Said("TrialFailed", n)
  BY <1>0, <1>1 DEF Types, CallsOK, Fits, Reports, Reporting, Story, Finishing, Owes
<1>3. \A d \in Clients : d # c => pc'[d] = pc[d] /\ job'[d] = job[d]
  BY OthersWait
<1>4. tag \in {"TrialCompleted", "TrialFailed"} /\ (tag = "TrialCompleted" <=> s.tag = "Completed")
  OBVIOUS
<1>. HIDE DEF tag
<1>5. EventsTruthful'
  <2>1. ASSUME NEW i \in Nat, ~ended, mailbox'[i] = Event(tag, n), DOMAIN mailbox = 1..(i - 1),
               \A k \in 1..(i - 1) : mailbox'[k] = mailbox[k]
        PROVE  Truthful(i)'
    <3>1. \E k \in 1..(i - 1) : At(k, "TrialStarted", n)'
      BY <1>2, <2>1 DEF Story, Said, At
    <3>2. \A k \in 1..(i - 1) : ~Terminal(k, n)'
      BY <1>2, <2>1 DEF Said, At, Terminal
    <3>3. trials'[n] = s /\ mailbox'[i].tag = tag /\ mailbox'[i].trial = n
      BY <1>1, <1>2, <2>1 DEF Event
    <3>4. ASSUME NEW m \in Numbers, Terminal(i, m)'
          PROVE  /\ \E k \in 1..(i - 1) : At(k, "TrialStarted", m)'
                 /\ \A k \in 1..(i - 1) : ~Terminal(k, m)'
                 /\ \E r \in Outcomes : trials'[m] = r /\
                      (r.tag = "Completed" <=> mailbox'[i].tag = "TrialCompleted")
      <4>1. m = n
        BY <3>3, <3>4 DEF Terminal, At
      <4>. QED BY <1>2, <1>4, <3>1, <3>2, <3>3, <4>1
    <3>. QED BY <1>4, <3>3, <3>4 DEF Truthful, At, Terminal
  <2>. QED BY <1>1, <2>1, OfferTruthful
<1>6. ASSUME NEW d \in Clients, pc'[d] = "reserved" PROVE pc[d] = pc'[d] /\ job[d] = job'[d]
  BY <1>1, <1>3, <1>6
<1>7. ASSUME NEW d \in Clients, pc'[d] \in Finishing
      PROVE  pc[d] \in Finishing /\ job[d] = job'[d] /\ Owes(d)'
  <2>1. CASE d = c
    <3>1. ~ended => Said("TrialCompleted", n)'
      BY <1>1, <1>7, <2>1, Says DEF Event, Finishing
    <3>2. ~Said("BestUpdated", n)'
      BY <1>1, <1>2, <1>4, Says DEF Event
    <3>3. trials'[n] = s /\ job'[c].trial = n /\ job'[c].state = s
      BY <1>0, <1>1, <1>2
    <3>. QED BY <1>1, <1>7, <2>1, <3>1, <3>2, <3>3 DEF Finishing, Owes, Said, At
  <2>2. CASE d # c
    <3>1. pc[d] = pc'[d] /\ job[d] = job'[d]
      BY <1>3, <2>2
    <3>2. job[d].trial # n
      BY <1>0, <1>1, <1>7, <2>2, <3>1 DEF Story, Finishing
    <3>. QED BY <1>1, <1>7, <3>1, <3>2, OwesKept DEF Story, Event
  <2>. QED BY <2>1, <2>2
<1>8. ASSUME NEW i \in DOMAIN mailbox', mailbox'[i].tag \in Tags PROVE mailbox'[i].trial \in asked'
  BY <1>1, <1>2, <1>8, Offering DEF Story, Event
<1>9. ASSUME ~ended', NEW m \in asked' PROVE Said("TrialStarted", m)'
  BY <1>1, <1>9, Says DEF Story, Event
<1>10. Story'
  BY <1>1, <1>6, <1>7, <1>8, <1>9 DEF Story
<1>. QED BY <1>5, <1>10

LEMMA BestStory ==
  ASSUME AskTellAssumption, Types, Deciding, Story, EventsTruthful, [Next]_vars,
         NEW c \in Clients, Step(c), AnnounceBest(c)
  PROVE  Story' /\ EventsTruthful'
<1>0. PICK n : n = job[c].trial
  OBVIOUS
<1>1. /\ Offer(Event("BestUpdated", n)) /\ asked' = asked /\ ended' = ended
      /\ pc[c] = "improved" /\ pc'[c] = "checking"
  BY <1>0 DEF AnnounceBest, Goto, Types, CallsOK
<1>2. /\ n \in asked /\ ~Said("BestUpdated", n)
      /\ ~ended => Said("TrialCompleted", n)
  BY <1>0, <1>1 DEF Types, CallsOK, Fits, Reporting, Story, Finishing, Owes
<1>3. \A d \in Clients : d # c => pc'[d] = pc[d] /\ job'[d] = job[d]
  BY OthersWait
<1>4. EventsTruthful'
  <2>1. ASSUME NEW i \in Nat, ~ended, mailbox'[i] = Event("BestUpdated", n),
               DOMAIN mailbox = 1..(i - 1), \A k \in 1..(i - 1) : mailbox'[k] = mailbox[k]
        PROVE  Truthful(i)'
    BY <1>2, <2>1 DEF Truthful, At, Terminal, Event, Said
  <2>. QED BY <1>1, <2>1, OfferTruthful
<1>5. ASSUME NEW d \in Clients, pc'[d] \in Finishing \cup {"reserved"}
      PROVE  d # c /\ pc[d] = pc'[d] /\ job[d] = job'[d]
  BY <1>1, <1>3, <1>5 DEF Finishing
<1>6. ASSUME NEW d \in Clients, pc'[d] \in Finishing PROVE Owes(d)'
  <2>1. job[d].trial # n
    BY <1>0, <1>1, <1>5, <1>6 DEF Story, Finishing
  <2>. QED BY <1>1, <1>5, <1>6, <2>1, OwesKept DEF Story, Event
<1>7. ASSUME NEW i \in DOMAIN mailbox', mailbox'[i].tag \in Tags PROVE mailbox'[i].trial \in asked'
  BY <1>1, <1>2, <1>7, Offering DEF Story, Event
<1>8. ASSUME ~ended', NEW m \in asked' PROVE Said("TrialStarted", m)'
  BY <1>1, <1>8, Says DEF Story, Event
<1>9. Story'
  BY <1>1, <1>5, <1>6, <1>7, <1>8 DEF Story
<1>. QED BY <1>4, <1>9

LEMMA PublishStory ==
  ASSUME AskTellAssumption, Types, Deciding, Story, EventsTruthful, [Next]_vars,
         NEW c \in Clients, Step(c), Publish(c)
  PROVE  Story' /\ EventsTruthful'
<1>1. PICK e : /\ mailbox' = mailbox \/ Offer(e)
               /\ e.tag = "Completed" /\ e.trial = None
  BY DEF Publish
<1>2. /\ asked' = asked /\ ended' = ended
      /\ pc[c] = "publishing" /\ pc'[c] \in {"idle", "sealing"}
  BY DEF Publish, Return, Goto, Types, CallsOK
<1>3. \A d \in Clients : d # c => pc'[d] = pc[d] /\ job'[d] = job[d]
  BY OthersWait
<1>4. EventsTruthful'
  <2>1. ASSUME NEW i \in Nat, mailbox'[i] = e
        PROVE  Truthful(i)'
    BY <1>1, <2>1 DEF Truthful, At, Terminal
  <2>. QED BY <1>1, <2>1, OfferTruthful, SilentTruthful
<1>5. ASSUME NEW d \in Clients, pc'[d] \in Finishing \cup {"reserved"}
      PROVE  d # c /\ pc[d] = pc'[d] /\ job[d] = job'[d]
  BY <1>2, <1>3, <1>5 DEF Finishing
<1>6. ASSUME NEW d \in Clients, pc'[d] \in Finishing PROVE Owes(d)'
  BY <1>1, <1>2, <1>5, <1>6, OwesKept DEF Story
<1>7. ASSUME NEW i \in DOMAIN mailbox', mailbox'[i].tag \in Tags PROVE mailbox'[i].trial \in asked'
  BY <1>1, <1>2, <1>7, Offering DEF Story, Tags
<1>8. ASSUME ~ended', NEW m \in asked' PROVE Said("TrialStarted", m)'
  <2>1. Said("TrialStarted", m)
    BY <1>2, <1>8 DEF Story
  <2>2. CASE mailbox' = mailbox
    BY <2>1, <2>2 DEF Said, At
  <2>3. CASE Offer(e)
    BY <2>1, <2>3, Says
  <2>. QED BY <1>1, <2>2, <2>3
<1>9. Story'
  BY <1>2, <1>5, <1>6, <1>7, <1>8 DEF Story
<1>. QED BY <1>4, <1>9

LEMMA StoryKept ==
  ASSUME AskTellAssumption, Types, Deciding, Story, EventsTruthful, [Next]_vars
  PROVE  Story' /\ EventsTruthful'
<1>1. CASE UNCHANGED vars
  BY <1>1, SilentTruthful DEF vars, Story, Owes, Said, At, Finishing, Tags
<1>2. CASE Close
  BY <1>2, SilentTruthful DEF Close, Story, Owes, Said, At, Finishing, Tags
<1>3. ASSUME NEW c \in Clients, Step(c) PROVE Story' /\ EventsTruthful'
  <2>1. \A d \in Clients : d # c => pc'[d] = pc[d] /\ job'[d] = job[d]
    BY <1>3, OthersWait
  <2>2. CASE Quiet(c)
    <3>1. mailbox' = mailbox /\ ended' = ended /\ asked' = asked
      BY <2>2 DEF Quiet, stream
    <3>2. ASSUME NEW d \in Clients, pc'[d] \in Finishing PROVE Owes(d)' /\ pc[d] = pc'[d] /\ job[d] = job'[d]
      BY <2>1, <2>2, <3>1, <3>2, OwesKept DEF Quiet, Speaking, Finishing, Story
    <3>3. ASSUME NEW d \in Clients, pc'[d] = "reserved" PROVE pc[d] = pc'[d] /\ job[d] = job'[d]
      BY <2>1, <2>2, <3>3 DEF Quiet, Speaking
    <3>4. Story'
      BY <3>1, <3>2, <3>3 DEF Story, Said, At, Tags
    <3>. QED BY <3>1, <3>4, SilentTruthful
  <2>3. CASE Reserve(c)
    <3>1. /\ mailbox' = mailbox /\ ended' = ended /\ asked' = asked
          /\ pc'[c] = "reserved" /\ job'[c].trial = NextNumber
      BY <2>3 DEF Reserve, stream, Goto, Load, Types, CallsOK
    <3>2. NextNumber \notin DOMAIN trials
      <4>1. PICK m \in 0..Trials : trials \in [0..(m - 1) -> States]
        BY DEF Types, StudyOK
      <4>. QED BY <4>1, Numbering
    <3>3. ASSUME NEW d \in Clients, pc'[d] \in Finishing PROVE Owes(d)' /\ pc[d] = pc'[d] /\ job[d] = job'[d]
      BY <2>1, <3>1, <3>3, OwesKept DEF Finishing, Story
    <3>4. ASSUME NEW d \in Clients, pc'[d] = "reserved", d # c
          PROVE  pc[d] = pc'[d] /\ job[d] = job'[d] /\ job'[d].trial # NextNumber
      BY <2>1, <3>2, <3>4 DEF Types, CallsOK, Fits
    <3>5. NextNumber \notin asked
      BY <3>2 DEF Types, StudyOK
    <3>6. Story'
      BY <3>1, <3>3, <3>4, <3>5 DEF Story, Said, At, Tags, Finishing
    <3>. QED BY <3>1, <3>6, SilentTruthful
  <2>4. CASE Journaled(c)
    <3>1. /\ mailbox' = mailbox /\ ended' = ended /\ asked' = asked
          /\ pc'[c] = "recorded" /\ job'[c] = job[c] /\ trials'[job[c].trial] = job[c].state
      BY <2>4 DEF Journaled, stream, Goto, Types, CallsOK, Recorded
    <3>2. job[c].trial \in DOMAIN trials /\ trials[job[c].trial] = Running /\ job[c].trial \in Numbers
      BY <2>4 DEF Journaled, Deciding, Pending, Types, CallsOK, Fits, Reporting, Reports
    <3>3. ASSUME NEW i \in DOMAIN mailbox, mailbox[i].trial = job[c].trial
          PROVE  mailbox[i].tag \notin {"TrialCompleted", "TrialFailed", "BestUpdated"}
      <4>1. ASSUME NEW k \in DOMAIN mailbox, Terminal(k, job[c].trial) PROVE FALSE
        BY <3>2, <4>1, NoOutcomeYet DEF EventsTruthful
      <4>2. CASE mailbox[i].tag = "BestUpdated"
        <5>1. PICK k \in 1..(i - 1) : At(k, "TrialCompleted", job[c].trial)
          BY <3>2, <3>3, <4>2 DEF EventsTruthful, At
        <5>2. k \in DOMAIN mailbox
          BY DEF Types, MailOK
        <5>. QED BY <4>1, <5>1, <5>2 DEF Terminal
      <4>. QED BY <3>3, <4>1, <4>2 DEF Terminal, At
    <3>4. Owes(c)'
      BY <3>1, <3>3 DEF Owes, Said, At
    <3>5. ASSUME NEW d \in Clients, d # c, pc'[d] \in Finishing
          PROVE  Owes(d)' /\ pc[d] = pc'[d] /\ job[d] = job'[d] /\ job'[d].trial # job[c].trial
      <4>1. pc[d] = pc'[d] /\ job[d] = job'[d]
        BY <2>1, <3>5
      <4>2. Owes(d) /\ job[d].state \in Outcomes
        BY <3>5, <4>1 DEF Story, Types, CallsOK, Fits, Reporting, Finishing, Reports
      <4>3. trials[job[d].trial] # Running
        BY <4>2, NoOutcomeYet DEF Owes
      <4>. QED BY <3>1, <3>2, <3>5, <4>1, <4>2, <4>3, OwesKept
    <3>6. Story'
      BY <2>1, <3>1, <3>4, <3>5 DEF Story, Said, At, Tags
    <3>. QED BY <3>1, <3>6, SilentTruthful
  <2>5. CASE UpdateBest(c)
    <3>1. /\ mailbox' = mailbox /\ ended' = ended /\ asked' = asked /\ trials' = trials
          /\ job' = job /\ pc[c] = "scoring" /\ pc'[c] \in {"improved", "checking"}
      BY <2>5 DEF UpdateBest, study, stream, Goto, Types, CallsOK
    <3>2. pc'[c] = "improved" => Owes(c)'
      BY <3>1 DEF Owes, Said, At, Story, Finishing
    <3>3. ASSUME NEW d \in Clients, d # c, pc'[d] \in Finishing PROVE Owes(d)' /\ pc[d] = pc'[d]
      BY <2>1, <3>1, <3>3, OwesKept DEF Story
    <3>4. Story'
      BY <2>1, <3>1, <3>2, <3>3 DEF Story, Said, At, Tags, Finishing
    <3>. QED BY <3>1, <3>4, SilentTruthful
  <2>6. CASE EndStudy(c)
    <3>1. /\ mailbox' = mailbox /\ ended' = ended /\ asked' = asked
          /\ pc'[c] = "publishing"
      BY <2>6 DEF EndStudy, stream, Goto, Types, CallsOK
    <3>2. ASSUME NEW d \in Clients, pc'[d] \in Finishing \cup {"reserved"}
          PROVE  pc[d] = pc'[d] /\ job[d] = job'[d]
      BY <2>1, <3>1, <3>2 DEF Finishing
    <3>3. ASSUME NEW d \in Clients, pc'[d] \in Finishing PROVE Owes(d)'
      BY <3>1, <3>2, <3>3, OwesKept DEF Story
    <3>4. Story'
      BY <3>1, <3>2, <3>3 DEF Story, Said, At, Tags
    <3>. QED BY <3>1, <3>4, SilentTruthful
  <2>7. CASE EndQueue(c)
    <3>1. /\ mailbox' = mailbox /\ ended' = TRUE /\ asked' = asked
          /\ pc'[c] = "idle"
      BY <2>7 DEF EndQueue, Return, Goto, Types, CallsOK
    <3>2. ASSUME NEW d \in Clients, pc'[d] \in Finishing \cup {"reserved"}
          PROVE  pc[d] = pc'[d] /\ job[d] = job'[d]
      BY <2>1, <3>1, <3>2 DEF Finishing
    <3>3. ASSUME NEW d \in Clients, pc'[d] \in Finishing PROVE Owes(d)'
      BY <3>1, <3>2, <3>3, OwesKept DEF Story
    <3>4. Story'
      BY <3>1, <3>2, <3>3 DEF Story, Said, At, Tags
    <3>. QED BY <3>1, <3>4, SilentTruthful
  <2>8. CASE AnnounceStarted(c) \/ EmitOutcome(c) \/ AnnounceBest(c) \/ Publish(c)
    BY <1>3, <2>8, AnnounceStory, OutcomeStory, BestStory, PublishStory
  <2>. QED BY <1>3, <2>2, <2>3, <2>4, <2>5, <2>6, <2>7, <2>8, Speaks
<1>. QED BY <1>1, <1>2, <1>3, NextIsStep

-------------------------------------------------------------------------------
(* The incumbent                                                            *)

Scored ==
  {n \in DOMAIN trials :
     trials[n].tag = "Completed" /\
     \A c \in Clients : pc[c] \in {"recorded", "scoring"} => job[c].trial # n}

BestOfScored ==
  IF Scored = {} THEN best = None
  ELSE /\ \E n \in Scored : trials[n].value = best
       /\ \A n \in Scored : best <= trials[n].value

LEMMA BestRestated ==
  /\ BestIsCurrent <=> (interrupted = 0 => BestOfScored)
  /\ BestIsCurrent' <=> (interrupted' = 0 => BestOfScored')
<1>. DEFINE unscored == {job[c].trial : c \in {d \in Clients : pc[d] \in {"recorded", "scoring"}}}
            scored == {n \in DOMAIN trials : trials[n].tag = "Completed" /\ n \notin unscored}
<1>1. Scored = scored
  BY DEF Scored
<1>2. Scored' = scored'
  BY DEF Scored
<1>3. BestIsCurrent <=>
        (interrupted = 0 =>
           IF scored = {} THEN best = None
           ELSE /\ \E n \in scored : trials[n].value = best
                /\ \A n \in scored : best <= trials[n].value)
  BY DEF BestIsCurrent
<1>4. BestIsCurrent' <=>
        (interrupted' = 0 =>
           IF scored' = {} THEN best' = None
           ELSE /\ \E n \in scored' : trials'[n].value = best'
                /\ \A n \in scored' : best' <= trials'[n].value)
  BY DEF BestIsCurrent
<1>. HIDE DEF scored
<1>. QED BY <1>1, <1>2, <1>3, <1>4 DEF BestOfScored

LEMMA SameScored ==
  ASSUME BestOfScored, Scored' = Scored, best' = best,
         \A n \in Scored : trials'[n] = trials[n]
  PROVE  BestOfScored'
BY DEF BestOfScored

LEMMA BestKept ==
  ASSUME AskTellAssumption, Types, Deciding, Story, BestIsCurrent, [Next]_vars
  PROVE  BestIsCurrent'
<1>0. SUFFICES ASSUME interrupted = 0 => BestOfScored, interrupted' = 0
               PROVE  BestOfScored'
  BY BestRestated
<1>1. CASE UNCHANGED vars
  BY <1>0, <1>1, SameScored DEF vars, Scored
<1>2. CASE Close
  BY <1>0, <1>2, SameScored DEF Close, Scored
<1>3. ASSUME NEW c \in Clients, Step(c) PROVE BestOfScored'
  <2>1. \A d \in Clients : d # c => pc'[d] = pc[d] /\ job'[d] = job[d]
    BY <1>3, OthersWait
  <2>2. CASE Quiet(c)
    <3>1. /\ trials' = trials /\ best' = best /\ interrupted = 0
          /\ pc[c] \notin {"recorded", "scoring"} /\ pc'[c] \notin {"recorded", "scoring"}
      BY <1>0, <2>2 DEF Quiet, Speaking
    <3>2. Scored' = Scored
      BY <2>1, <3>1 DEF Scored
    <3>. QED BY <1>0, <3>1, <3>2, SameScored
  <2>3. CASE Reserve(c)
    <3>1. PICK m \in 0..Trials : trials \in [0..(m - 1) -> States]
      BY DEF Types, StudyOK
    <3>2. /\ best' = best /\ interrupted' = interrupted
          /\ pc[c] = "idle" /\ pc'[c] = "reserved"
          /\ DOMAIN trials' = DOMAIN trials \cup {NextNumber}
          /\ trials'[NextNumber] = Running /\ NextNumber \notin DOMAIN trials
          /\ \A n \in DOMAIN trials : trials'[n] = trials[n]
      BY <2>3, <3>1, Numbering DEF Reserve, Recorded, Calls, Goto, Types, CallsOK
    <3>3. Scored' = Scored
      BY <2>1, <3>2 DEF Scored, Running
    <3>. QED BY <1>0, <3>2, <3>3, SameScored DEF Scored
  <2>4. CASE AnnounceStarted(c) \/ AnnounceBest(c) \/ Publish(c) \/ EndQueue(c)
    <3>1. /\ trials' = trials /\ best' = best /\ interrupted = interrupted'
          /\ pc[c] \notin {"recorded", "scoring"} /\ pc'[c] \notin {"recorded", "scoring"}
      BY <2>4 DEF AnnounceStarted, AnnounceBest, Publish, EndQueue, study, Return, Goto, Types, CallsOK
    <3>2. Scored' = Scored
      BY <2>1, <3>1 DEF Scored
    <3>. QED BY <1>0, <3>1, <3>2, SameScored
  <2>5. CASE EndStudy(c)
    <3>1. /\ best' = best /\ interrupted = interrupted' /\ pc[c] = "ending" /\ pc'[c] = "publishing"
          /\ DOMAIN trials' = DOMAIN trials
          /\ \A n \in DOMAIN trials :
               trials'[n] = trials[n] \/ (trials[n] = Running /\ trials'[n] = Cancelled)
      BY <2>5 DEF EndStudy, CancelPending, Goto, Types, CallsOK
    <3>2. Scored' = Scored
      BY <2>1, <3>1 DEF Scored, Running, Cancelled
    <3>. QED BY <1>0, <3>1, <3>2, SameScored DEF Scored, Running
  <2>6. CASE Journaled(c)
    <3>1. PICK n : n = job[c].trial
      OBVIOUS
    <3>2. /\ best' = best /\ interrupted = interrupted'
          /\ pc[c] = "journaling" /\ pc'[c] = "recorded" /\ job'[c].trial = n
          /\ n \in DOMAIN trials /\ trials[n] = Running
          /\ DOMAIN trials' = DOMAIN trials
          /\ \A m \in DOMAIN trials : m # n => trials'[m] = trials[m]
      BY <2>6, <3>1 DEF Journaled, Deciding, Pending, Recorded, Goto, Types, CallsOK
    <3>3. Scored' = Scored
      BY <2>1, <3>2 DEF Scored, Running
    <3>. QED BY <1>0, <3>2, <3>3, SameScored DEF Scored, Running
  <2>7. CASE EmitOutcome(c)
    <3>1. /\ trials' = trials /\ best' = best /\ interrupted = interrupted' /\ job' = job
          /\ pc[c] = "recorded"
          /\ pc'[c] = "scoring" \/ (pc'[c] = "checking" /\ job[c].state.tag # "Completed")
      BY <2>7 DEF EmitOutcome, study, Goto, Types, CallsOK
    <3>2. trials[job[c].trial] = job[c].state
      BY <3>1 DEF Story, Finishing, Owes
    <3>3. Scored' = Scored
      BY <2>1, <3>1, <3>2 DEF Scored
    <3>. QED BY <1>0, <3>1, <3>3, SameScored
  <2>8. CASE UpdateBest(c)
    <3>1. PICK n, v : n = job[c].trial /\ v = job[c].state.value
      OBVIOUS
    <3>2. /\ trials' = trials /\ interrupted = interrupted' /\ job' = job
          /\ pc[c] = "scoring" /\ pc'[c] \notin {"recorded", "scoring"}
          /\ best' = IF best = None \/ v < best THEN v ELSE best
      BY <2>8, <3>1 DEF UpdateBest, study, Goto, Types, CallsOK
    <3>3. trials[n] = job[c].state /\ n \in DOMAIN trials /\ trials[n].tag = "Completed" /\ trials[n].value = v
      BY <3>1, <3>2 DEF Story, Finishing, Owes, Types, CallsOK, Fits, StudyOK, Reporting
    <3>4. \A d \in Clients : d # c /\ pc[d] \in {"recorded", "scoring"} => job[d].trial # n
      BY <3>1, <3>2 DEF Story, Finishing
    <3>5. Scored' = Scored \cup {n}
      BY <2>1, <3>1, <3>2, <3>3, <3>4 DEF Scored
    <3>6. \A m \in Scored' : trials[m].value \in Values
      BY <3>2 DEF Scored, Types, StudyOK, States, Running, Cancelled, Outcomes
    <3>7. BestOfScored
      BY <1>0, <3>2
    <3>8. CASE Scored = {}
      <4>1. Scored' = {n} /\ best' = v /\ trials'[n].value = v
        BY <3>2, <3>3, <3>5, <3>7, <3>8 DEF BestOfScored
      <4>2. v \in Int
        BY <3>3, <3>5, <3>6 DEF AskTellAssumption
      <4>3. v <= v
        BY <4>2
      <4>. QED BY <4>1, <4>3 DEF BestOfScored
    <3>9. CASE Scored # {}
      <4>1. best \in Values /\ v \in Values /\ \A m \in Scored : best <= trials[m].value
        BY <3>3, <3>5, <3>6, <3>7, <3>9 DEF BestOfScored
      <4>2. best # None /\ best \in Int /\ v \in Int /\ \A m \in Scored : trials[m].value \in Int
        BY <3>5, <3>6, <4>1 DEF AskTellAssumption
      <4>3. \A m \in Scored' : best' <= trials'[m].value
        BY <3>2, <3>3, <3>5, <4>1, <4>2
      <4>4. \E m \in Scored' : trials'[m].value = best'
        BY <3>2, <3>3, <3>5, <3>7, <3>9, <4>2 DEF BestOfScored
      <4>. QED BY <3>5, <4>3, <4>4 DEF BestOfScored
    <3>. QED BY <3>8, <3>9
  <2>. QED BY <1>3, <2>2, <2>3, <2>4, <2>5, <2>6, <2>7, <2>8, Speaks
<1>. QED BY <1>1, <1>2, <1>3, NextIsStep

-------------------------------------------------------------------------------
(* Theorems                                                                 *)

(* The trial being decided stays pending (Deciding) and a cancelled study   *)
(* has none (GivenUp), so the history is what the journal says; each event  *)
(* is about what its caller recorded (Story); the completion is announced   *)
(* by an ended study (Sealed), once for each who may (Single).              *)
IInv ==
  /\ Types /\ Deciding /\ GivenUp /\ Sealed /\ Single /\ Story
  /\ HistoryIsJournaled /\ EventsTruthful /\ BestIsCurrent

LEMMA InitHolds == ASSUME AskTellAssumption, Init PROVE IInv
<1>1. Types
  BY InitTypes
<1>2. Deciding /\ GivenUp /\ HistoryIsJournaled
  BY DEF Init, Deciding, GivenUp, Pending, HistoryIsJournaled
<1>3. Sealed /\ Story /\ EventsTruthful
  BY DEF Init, Sealed, Completions, Story, Finishing, EventsTruthful
<1>4. BestIsCurrent
  BY BestRestated DEF Init, BestOfScored, Scored
<1>5. Single
  <2>1. Completions = {} /\ DOMAIN trials = {}
    BY DEF Init, Completions
  <2>2. Cut = 0 /\ Sealers = 0
    BY <2>1, FS_EmptySet DEF Init, Cut, Sealers, Sealing
  <2>. QED BY <2>1, <2>2, FS_EmptySet DEF Single
<1>. QED BY <1>1, <1>2, <1>3, <1>4, <1>5 DEF IInv

LEMMA NextPreserves == ASSUME AskTellAssumption, IInv, [Next]_vars PROVE IInv'
BY NextTypes, DecidingKept, GivenUpKept, SealedKept, SingleKept, StoryKept, JournaledKept, BestKept DEF IInv

(* The invariant holds of every behaviour of the handle.                    *)
THEOREM InvariantHolds == Spec => []IInv
<1>1. Init => IInv
  BY InitHolds, AskTellAssumption
<1>2. IInv /\ [Next]_vars => IInv'
  BY NextPreserves, AskTellAssumption
<1>. QED BY <1>1, <1>2, PTL DEF Spec

(* The variables keep their types; the semaphore is held exactly while its  *)
(* holder waits for the journal; trial numbers have no gaps and stay within *)
(* the budget (study.ts, askTellTransaction.ts).                            *)
THEOREM TypesHold == Spec => []TypeOK
<1>1. IInv => TypeOK
  BY TypesImply, AskTellAssumption DEF IInv
<1>. QED BY <1>1, InvariantHolds, PTL

(* Every outcome in the history is in the journal as it stands, and no      *)
(* trial is there twice, whatever fails or is interrupted (askTellFinalize  *)
(* writes the journal first; the storage refuses a number it has).          *)
THEOREM HistoryStaysJournaled == Spec => []HistoryIsJournaled
<1>1. IInv => HistoryIsJournaled
  BY DEF IInv
<1>. QED BY <1>1, InvariantHolds, PTL

(* The event stream tells one story of each trial, however the fibers that  *)
(* offer events interleave: a start, then at most one outcome, the one in   *)
(* the history, and an improvement only after its completion                *)
(* (askTellFinalize.ts, askTellEvents.ts).                                  *)
THEOREM StreamStaysTruthful == Spec => []EventsTruthful
<1>1. IInv => EventsTruthful
  BY DEF IInv
<1>. QED BY <1>1, InvariantHolds, PTL

(* Who reads a completion finds the study ended; the queue of an open       *)
(* handle ends with one in it; and there is one, whoever races to publish   *)
(* it, and at most one more for each call cut short (publishCompletion in   *)
(* askTellLifecycle.ts).                                                    *)
THEOREM CompletionSeals == Spec => []CompletionSealsStream
<1>1. ASSUME IInv PROVE CompletionSealsStream
  <2>1. /\ Completions # {} => lifecycle # "Running"
        /\ open /\ ended => Completions # {}
    BY <1>1 DEF IInv, Sealed
  <2>2. Cardinality(Completions) \in Nat /\ Cut \in Int
    <3>1. PICK m \in 0..Trials : DOMAIN trials = 0..(m - 1)
      BY <1>1 DEF IInv, Types, StudyOK
    <3>2. Cardinality(DOMAIN trials) = m
      BY <3>1, Numbering, AskTellAssumption
    <3>. QED BY <1>1, <3>2, CompletionsFinite, AskTellAssumption DEF Cut, IInv, Types, FlagsOK, AskTellAssumption
  <2>3. Cardinality(Completions) <= 1 + Cut
    BY <1>1, <2>2 DEF IInv, Single, Sealers
  <2>. QED BY <2>1, <2>3 DEF CompletionSealsStream
<1>. QED BY <1>1, InvariantHolds, PTL

(* As long as no call is interrupted, the incumbent is the best value of    *)
(* the trials that have been scored, in whatever order concurrent tells     *)
(* scored them (updateBest in askTellFinalize.ts).                          *)
THEOREM BestStaysCurrent == Spec => []BestIsCurrent
<1>1. IInv => BestIsCurrent
  BY DEF IInv
<1>. QED BY <1>1, InvariantHolds, PTL

(* The handle implements the trial ledger: a number of its own within the   *)
(* budget for every trial, one outcome that it keeps, nothing after the end.*)
THEOREM HandleIsLedger == Spec => ImplementsLedger
<1>1. Init => Ledger!Init
  BY DEF Init, Ledger!Init
<1>2. IInv /\ [Next]_vars => [Ledger!Next]_(Ledger!vars)
  BY NextLedger, AskTellAssumption DEF IInv
<1>. QED BY <1>1, <1>2, InvariantHolds, PTL DEF Spec, ImplementsLedger, Ledger!Spec
===============================================================================
