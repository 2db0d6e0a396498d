------------------------------- MODULE AskTell --------------------------------
(***************************************************************************)
(* The manual optimization handle of effect-search (internal/optimization/  *)
(* askTell*.ts): fibers ask for trials, tell or fail their results, cancel  *)
(* the handle and take results, concurrently. The study's state changes     *)
(* only in transactions under its semaphore; everything else an operation   *)
(* does around them - the journal, the event mailbox, the completion        *)
(* reason, the budget check - is a step of its own, and other fibers run in *)
(* between. Calls that fail before they change anything are not actions.    *)
(* Values are minimised; prior trials are left out, since they count        *)
(* neither towards numbers nor towards the budget.                          *)
(***************************************************************************)
EXTENDS Integers, Sequences, FiniteSets

CONSTANTS
  Clients,     \* the fibers that use the handle
  Trials,      \* settings.trials, the budget
  SpaceSize,   \* how many configurations the sampler can suggest
  Values,      \* the objective values told
  Interrupts,  \* bound: how many calls are interrupted
  None

ASSUME AskTellAssumption ==
  /\ None \notin Clients /\ None \notin Values /\ None \notin 0..(Trials - 1)
  /\ Trials \in Nat /\ SpaceSize \in Nat
  /\ Values \subseteq Int /\ Interrupts \in Nat

VARIABLES
  open,       \* whether the scope of the handle is open
  lifecycle,  \* the study's lifecycle
  trials,     \* the study's history: the state of every trial, by number
  draws,      \* how many configurations the sampler has suggested
  lock,       \* the fiber whose study transaction waits for the journal
  journal,    \* the durable trial records
  cursor,     \* the tail of the journal as OptimizationStorage knows it
  reason,     \* completionReasonRef
  published,  \* completionPublishedRef
  mailbox,    \* every event accepted by the event queue so far
  ended,      \* whether the event queue has been ended or shut down
  best,       \* bestValueRef
  pc, job,    \* where each fiber is in its call, and what the call is about
  asked,      \* the trial numbers callers have been given
  interrupted,  \* how many calls have been interrupted
  died        \* whether a study transaction died of an illegal transition

vars == <<open, lifecycle, trials, draws, lock, journal, cursor, reason,
          published, mailbox, ended, best, pc, job, asked, interrupted, died>>

study == <<lifecycle, trials>>
stream == <<published, mailbox, ended>>
stored == <<journal, cursor>>

-------------------------------------------------------------------------------
Running == [tag |-> "Running", value |-> None]
Cancelled == [tag |-> "Cancelled", value |-> None]
Outcomes ==
  [tag : {"Completed"}, value : Values] \cup {[tag |-> "Failed", value |-> None]}

Numbers == 0..(Trials - 1)

Pending == {n \in DOMAIN trials : trials[n] = Running}

(* Variant: gives up observations too.                                      *)
CancelAll == [n \in DOMAIN trials |-> Cancelled]

CancelPending ==
  [n \in DOMAIN trials |-> IF trials[n] = Running THEN Cancelled ELSE trials[n]]

Recorded(n, s) ==
  [k \in DOMAIN trials \cup {n} |-> IF k = n THEN s ELSE trials[k]]

NextNumber == Cardinality(DOMAIN trials)

CanTransition(from, to) ==
  \/ from = "Created" /\ to \in {"Running", "Cancelled"}
  \/ from = "Running" /\ to \in {"Paused", "Completed", "Failed", "Cancelled"}
  \/ from = "Paused" /\ to \in {"Running", "Cancelled"}

Event(tag, n) == [tag |-> tag, trial |-> n, reason |-> None]

(* An event offered after the queue has ended is dropped.                   *)
Offer(e) == mailbox' = IF ended THEN mailbox ELSE Append(mailbox, e)

Goto(c, l) == pc' = [pc EXCEPT ![c] = l]
Load(c, j) == job' = [job EXCEPT ![c] = j]

Return(c) == Goto(c, "idle") /\ Load(c, None)

Calls(c) == open /\ pc[c] = "idle"

-------------------------------------------------------------------------------
(* open() returns the handle with its study running.                        *)
Init ==
  /\ open = TRUE /\ lifecycle = "Running" /\ trials = << >> /\ draws = 0
  /\ lock = None /\ journal = << >> /\ cursor = 0
  /\ reason = None /\ published = FALSE /\ mailbox = << >> /\ ended = FALSE
  /\ best = None
  /\ pc = [c \in Clients |-> "idle"]
  /\ job = [c \in Clients |-> None]
  /\ asked = {} /\ interrupted = 0 /\ died = FALSE

(* ask: in one transaction the handle is seen running and within budget,    *)
(* and the next configuration is reserved under the next number.            *)
MayReserve ==
  lock = None /\ lifecycle = "Running" /\ Cardinality(DOMAIN trials) < Trials

Reserve(c) ==
  /\ Calls(c) /\ MayReserve /\ draws < SpaceSize
  /\ draws' = draws + 1
  /\ trials' = Recorded(NextNumber, Running)
  /\ Goto(c, "reserved") /\ Load(c, [trial |-> NextNumber, state |-> Running])
  /\ UNCHANGED <<open, lifecycle, lock, stored, reason, stream, best, asked, interrupted, died>>

(* The sampler has no configuration left: ask closes the handle.            *)
SpaceExhausted(c) ==
  /\ Calls(c) /\ MayReserve /\ draws = SpaceSize
  /\ Goto(c, "closing")
  /\ Load(c, [reason |-> "spaceExhausted", final |-> "Completed"])
  /\ UNCHANGED <<open, study, draws, lock, stored, reason, stream, best, asked, interrupted, died>>

AnnounceStarted(c) ==
  /\ pc[c] = "reserved"
  /\ Offer(Event("TrialStarted", job[c].trial))
  /\ asked' = asked \cup {job[c].trial}
  /\ Return(c)
  /\ UNCHANGED <<open, study, draws, lock, stored, reason, published, ended, best, interrupted, died>>

-------------------------------------------------------------------------------
(* tell and fail: the handle is seen running and the trial pending, before  *)
(* the transaction that finalizes it is entered.                            *)
Tell(c, n, s) ==
  /\ Calls(c) /\ lifecycle = "Running" /\ n \in Pending
  /\ Goto(c, "telling") /\ Load(c, [trial |-> n, state |-> s])
  /\ UNCHANGED <<open, study, draws, lock, stored, reason, stream, best, asked, interrupted, died>>

(* Variant: trusts what tell saw before it waited.                          *)
EnterFinalizeUnchecked(c) ==
  /\ pc[c] = "telling" /\ lock = None
  /\ lock' = c
  /\ Goto(c, "journaling")
  /\ UNCHANGED <<open, study, draws, stored, reason, stream, best, job, asked, interrupted, died>>

(* The transaction looks again.                                             *)
EnterFinalize(c) ==
  /\ pc[c] = "telling" /\ lock = None
  /\ lifecycle = "Running" /\ job[c].trial \in Pending
  /\ lock' = c
  /\ Goto(c, "journaling")
  /\ UNCHANGED <<open, study, draws, stored, reason, stream, best, job, asked, interrupted, died>>

RefuseFinalize(c) ==
  /\ pc[c] = "telling" /\ lock = None
  /\ lifecycle # "Running" \/ job[c].trial \notin Pending
  /\ Return(c)
  /\ UNCHANGED <<open, study, draws, lock, stored, reason, stream, best, asked, interrupted, died>>

(* The journal accepts a new trial number only at the tail that the storage *)
(* knows, and one it has if the content is the same.                        *)
AppendsAtTail(n) ==
  cursor = Len(journal) /\ \A i \in DOMAIN journal : journal[i].trial # n

Journaled(c) ==
  /\ pc[c] = "journaling"
  /\ \/ /\ AppendsAtTail(job[c].trial)
        /\ journal' = Append(journal, job[c])
        /\ cursor' = Len(journal')
     \/ /\ \E i \in DOMAIN journal :
             journal[i] = job[c] /\ cursor' = IF i > cursor THEN i ELSE cursor
        /\ UNCHANGED journal
  /\ trials' = Recorded(job[c].trial, job[c].state)
  /\ lock' = None
  /\ Goto(c, "recorded")
  /\ UNCHANGED <<open, lifecycle, draws, reason, stream, best, job, asked, interrupted, died>>

(* Variant: the failed transaction keeps the semaphore.                     *)
JournalFailsHolding(c) ==
  /\ pc[c] = "journaling"
  /\ Return(c)
  /\ UNCHANGED <<open, study, draws, lock, stored, reason, stream, best, asked, interrupted, died>>

(* Variant: the history is updated although the append failed.              *)
JournalFailsRecorded(c) ==
  /\ pc[c] = "journaling"
  /\ trials' = Recorded(job[c].trial, job[c].state)
  /\ lock' = None
  /\ Return(c)
  /\ UNCHANGED <<open, lifecycle, draws, stored, reason, stream, best, asked, interrupted, died>>

(* The append is refused, or fails and may have been committed: the history *)
(* stays as it was and the call fails.                                      *)
JournalFails(c) ==
  /\ pc[c] = "journaling"
  /\ \/ UNCHANGED journal
     \/ AppendsAtTail(job[c].trial) /\ journal' = Append(journal, job[c])
  /\ lock' = None
  /\ Return(c)
  /\ UNCHANGED <<open, study, draws, cursor, reason, stream, best, asked, interrupted, died>>

EmitOutcome(c) ==
  LET completed == job[c].state.tag = "Completed" IN
  /\ pc[c] = "recorded"
  /\ Offer(Event(IF completed THEN "TrialCompleted" ELSE "TrialFailed", job[c].trial))
  /\ Goto(c, IF completed THEN "scoring" ELSE "checking")
  /\ UNCHANGED <<open, study, draws, lock, stored, reason, published, ended, best, job, asked, interrupted, died>>

(* Variant: the last value scored becomes the incumbent.                    *)
UpdateBestAlways(c) ==
  /\ pc[c] = "scoring"
  /\ best' = job[c].state.value
  /\ Goto(c, "improved")
  /\ UNCHANGED <<open, study, draws, lock, stored, reason, stream, job, asked, interrupted, died>>

UpdateBest(c) ==
  LET value == job[c].state.value
      better == best = None \/ value < best
  IN
  /\ pc[c] = "scoring"
  /\ best' = IF better THEN value ELSE best
  /\ Goto(c, IF better THEN "improved" ELSE "checking")
  /\ UNCHANGED <<open, study, draws, lock, stored, reason, stream, job, asked, interrupted, died>>

AnnounceBest(c) ==
  /\ pc[c] = "improved"
  /\ Offer(Event("BestUpdated", job[c].trial))
  /\ Goto(c, "checking")
  /\ UNCHANGED <<open, study, draws, lock, stored, reason, published, ended, best, job, asked, interrupted, died>>

(* Variant: off by one.                                                     *)
CanCompleteBeyond ==
  lifecycle = "Running" /\ Cardinality(DOMAIN trials) > Trials /\ Pending = {}

(* Outside any transaction: is the budget used up, with nothing pending?    *)
CanComplete ==
  lifecycle = "Running" /\ Cardinality(DOMAIN trials) >= Trials /\ Pending = {}

CompleteIfBudgetReached(c) ==
  /\ pc[c] = "checking"
  /\ IF CanComplete
     THEN /\ Goto(c, "closing")
          /\ Load(c, [reason |-> "budgetExhausted", final |-> "Completed"])
     ELSE Return(c)
  /\ UNCHANGED <<open, study, draws, lock, stored, reason, stream, best, asked, interrupted, died>>

-------------------------------------------------------------------------------
(* result begins with the budget check; what it returns is a reading.       *)
Result(c) ==
  /\ Calls(c) /\ Goto(c, "checking")
  /\ UNCHANGED <<open, study, draws, lock, stored, reason, stream, best, job, asked, interrupted, died>>

Cancel(c) ==
  /\ Calls(c) /\ Goto(c, "closing")
  /\ Load(c, [reason |-> "interrupted", final |-> "Cancelled"])
  /\ UNCHANGED <<open, study, draws, lock, stored, reason, stream, best, asked, interrupted, died>>

(* publishCompletion: the first reason stays; the lifecycle changes in a    *)
(* transaction that dies if the study has ended otherwise; and the first to *)
(* come publishes the completion and ends the queue, under a lock of that   *)
(* flag's own.                                                              *)
SetReason(c) ==
  /\ pc[c] = "closing"
  /\ reason' = IF reason = None THEN job[c].reason ELSE reason
  /\ Goto(c, "ending")
  /\ UNCHANGED <<open, study, draws, lock, stored, stream, best, job, asked, interrupted, died>>

Legal(final) == lifecycle = final \/ CanTransition(lifecycle, final)

EndStudy(c) ==
  LET final == job[c].final IN
  /\ pc[c] = "ending" /\ lock = None /\ Legal(final)
  /\ lifecycle' = final
  /\ trials' = IF final = "Cancelled" THEN CancelPending ELSE trials
  /\ Goto(c, "publishing")
  /\ UNCHANGED <<open, draws, lock, stored, reason, stream, best, job, asked, interrupted, died>>

DieEnding(c) ==
  /\ pc[c] = "ending" /\ lock = None /\ ~Legal(job[c].final)
  /\ died' = TRUE
  /\ Return(c)
  /\ UNCHANGED <<open, study, draws, lock, stored, reason, stream, best, asked, interrupted>>

Sealing == \E c \in Clients : pc[c] = "sealing"

(* Variant: the queue is ended before the completion is offered to it.      *)
PublishEnding(c) ==
  /\ pc[c] = "publishing" /\ ~Sealing
  /\ IF published THEN Return(c) /\ UNCHANGED ended
     ELSE Goto(c, "sealing") /\ ended' = TRUE /\ UNCHANGED job
  /\ UNCHANGED <<open, study, draws, lock, stored, reason, published, mailbox, best, asked, interrupted, died>>

Publish(c) ==
  /\ pc[c] = "publishing" /\ ~Sealing
  /\ IF published THEN Return(c) /\ UNCHANGED mailbox
     ELSE /\ Offer([tag |-> "Completed", trial |-> None, reason |-> job[c].reason])
          /\ Goto(c, "sealing") /\ UNCHANGED job
  /\ UNCHANGED <<open, study, draws, lock, stored, reason, published, ended, best, asked, interrupted, died>>

EndQueue(c) ==
  /\ pc[c] = "sealing"
  /\ ended' = TRUE /\ published' = TRUE
  /\ Return(c)
  /\ UNCHANGED <<open, study, draws, lock, stored, reason, mailbox, best, asked, interrupted, died>>

-------------------------------------------------------------------------------
Interruptible == interrupted < Interrupts /\ interrupted' = interrupted + 1

(* A fiber is interrupted anywhere but in the uninterruptible finalization. *)
Interrupt(c) ==
  /\ Interruptible /\ pc[c] \notin {"idle", "journaling"}
  /\ Return(c)
  /\ UNCHANGED <<open, study, draws, lock, stored, reason, stream, best, asked, died>>

(* An ask fails or is interrupted after the sampler has advanced.           *)
LoseSuggestion(c) ==
  /\ Interruptible /\ Calls(c) /\ MayReserve /\ draws < SpaceSize
  /\ draws' = draws + 1
  /\ UNCHANGED <<open, study, lock, stored, reason, stream, best, pc, job, asked, died>>

(* The scope closes when all use of the handle has finished.                *)
Close ==
  /\ open /\ \A c \in Clients : pc[c] = "idle"
  /\ open' = FALSE /\ ended' = TRUE
  /\ lifecycle' = IF CanTransition(lifecycle, "Cancelled") THEN "Cancelled" ELSE lifecycle
  /\ UNCHANGED <<trials, draws, lock, stored, reason, published, mailbox, best, pc, job, asked, interrupted, died>>

-------------------------------------------------------------------------------
Finalize(c) ==
  \/ EnterFinalize(c) \/ RefuseFinalize(c) \/ Journaled(c) \/ JournalFails(c)
  \/ EmitOutcome(c) \/ UpdateBest(c) \/ AnnounceBest(c)

PublishCompletion(c) ==
  SetReason(c) \/ EndStudy(c) \/ DieEnding(c) \/ Publish(c) \/ EndQueue(c)

(* What a fiber does once its call has begun.                               *)
Continue(c) ==
  \/ AnnounceStarted(c) \/ Finalize(c) \/ CompleteIfBudgetReached(c)
  \/ PublishCompletion(c)

Ask(c) == Reserve(c) \/ SpaceExhausted(c) \/ LoseSuggestion(c)

Report(c) == \E n \in asked, s \in Outcomes : Tell(c, n, s)

Next ==
  \/ Close
  \/ \E c \in Clients :
       \/ Ask(c) \/ Report(c) \/ Result(c) \/ Cancel(c)
       \/ Continue(c) \/ Interrupt(c)

Spec == Init /\ [][Next]_vars

(* The study's semaphore admits waiters in the order they came, and the     *)
(* journal answers one way or the other, so no call waits for ever.         *)
FairSpec == Spec /\ \A c \in Clients : SF_vars(Continue(c))

-------------------------------------------------------------------------------
Jobs ==
  {None} \cup [trial : Numbers, state : {Running} \cup Outcomes]
    \cup {[reason |-> "spaceExhausted", final |-> "Completed"],
          [reason |-> "budgetExhausted", final |-> "Completed"],
          [reason |-> "interrupted", final |-> "Cancelled"]}

Tags == {"TrialStarted", "TrialCompleted", "TrialFailed", "BestUpdated"}

Events ==
  [tag : Tags, trial : Numbers, reason : {None}]
    \cup [tag : {"Completed"}, trial : {None},
          reason : {"spaceExhausted", "budgetExhausted", "interrupted"}]

Reporting == {"telling", "journaling", "recorded", "scoring", "improved"}
Ending == {"closing", "ending", "publishing", "sealing"}

JobFits(c) ==
  /\ pc[c] = "idle" => job[c] = None
  /\ pc[c] = "reserved" => job[c] \in [trial : Numbers, state : {Running}]
  /\ pc[c] \in Reporting => job[c] \in [trial : Numbers, state : Outcomes]
  /\ pc[c] \in {"scoring", "improved"} => job[c].state.tag = "Completed"
  /\ pc[c] \in Ending => "final" \in DOMAIN job[c]

(* The types of the variables; the study's semaphore is held exactly while  *)
(* its holder waits for the journal; trial numbers have no gaps.            *)
TypeOK ==
  /\ open \in BOOLEAN /\ published \in BOOLEAN /\ ended \in BOOLEAN
  /\ died \in BOOLEAN
  /\ lifecycle \in {"Running", "Completed", "Cancelled"}
  /\ \E m \in 0..Trials :
       trials \in [0..(m - 1) -> {Running, Cancelled} \cup Outcomes]
  /\ draws \in 0..SpaceSize /\ interrupted \in 0..Interrupts
  /\ lock \in Clients \cup {None}
  /\ \A c \in Clients : (lock = c) <=> (pc[c] = "journaling")
  /\ journal \in Seq([trial : Numbers, state : Outcomes])
  /\ cursor \in 0..Len(journal)
  /\ reason \in {None, "spaceExhausted", "budgetExhausted", "interrupted"}
  /\ mailbox \in Seq(Events)
  /\ best \in Values \cup {None}
  /\ pc \in [Clients -> {"idle", "reserved", "checking"} \cup Reporting \cup Ending]
  /\ job \in [Clients -> Jobs]
  /\ \A c \in Clients : JobFits(c)
  /\ asked \subseteq DOMAIN trials

(* Journal before history: every outcome in the study's history was         *)
(* journaled as it stands, and no trial is journaled twice, even when       *)
(* appends fail after committing, tells race for the same trial and fibers  *)
(* are interrupted.                                                         *)
HistoryIsJournaled ==
  /\ \A n \in DOMAIN trials : trials[n] \in Outcomes =>
       \E i \in DOMAIN journal : journal[i] = [trial |-> n, state |-> trials[n]]
  /\ \A i, j \in DOMAIN journal : journal[i].trial = journal[j].trial => i = j

At(i, tag, n) == mailbox[i].tag = tag /\ mailbox[i].trial = n
Terminal(i, n) == At(i, "TrialCompleted", n) \/ At(i, "TrialFailed", n)

(* The event stream tells one story of each trial: started once, and then   *)
(* at most one outcome, the one in the history; an improvement is announced *)
(* at most once and after the completion it comes from.                     *)
EventsTruthful ==
  \A i \in DOMAIN mailbox : \A n \in Numbers :
    LET before == 1..(i - 1) IN
    /\ At(i, "TrialStarted", n) => \A k \in before : mailbox[k].trial # n
    /\ Terminal(i, n) =>
         /\ \E k \in before : At(k, "TrialStarted", n)
         /\ \A k \in before : ~Terminal(k, n)
         /\ \E s \in Outcomes : trials[n] = s /\
              (s.tag = "Completed" <=> mailbox[i].tag = "TrialCompleted")
    /\ At(i, "BestUpdated", n) =>
         /\ \E k \in before : At(k, "TrialCompleted", n)
         /\ \A k \in before : ~At(k, "BestUpdated", n)

(* The handle keeps the promises of a trial ledger: numbers within the      *)
(* budget, one outcome per trial, nothing changes after the end.            *)
Ledger == INSTANCE TrialLedger WITH Budget <- Trials

ImplementsLedger == Ledger!Spec

Completions == {i \in DOMAIN mailbox : mailbox[i].tag = "Completed"}

(* Interruptions that cut a call short; the others cost a suggestion.       *)
Cut == interrupted - (draws - Cardinality(DOMAIN trials))

(* A completion in the stream is no promise that it is the last event: calls *)
(* already under way may still announce theirs until the queue ends.  What  *)
(* a consumer may rely on is this: who reads a completion finds the study   *)
(* ended; the queue of an open scope ends with a completion in it; and      *)
(* there is one completion, whoever races to publish it, but for one more   *)
(* for each publisher cut short between its event and the queue's end       *)
(* (askTellLifecycle.ts:83-104).                                            *)
CompletionSealsStream ==
  /\ Completions # {} => lifecycle # "Running"
  /\ open /\ ended => Completions # {}
  /\ Cardinality(Completions) <= 1 + Cut

(* As long as no fiber is interrupted, the incumbent is the best value of    *)
(* all trials whose tell has got as far as the incumbent, whatever order     *)
(* concurrent tells got there in.                                           *)
BestIsCurrent ==
  LET unscored == {job[c].trial : c \in {d \in Clients : pc[d] \in {"recorded", "scoring"}}}
      scored == {n \in DOMAIN trials :
                   trials[n].tag = "Completed" /\ n \notin unscored}
  IN  interrupted = 0 =>
        IF scored = {} THEN best = None
        ELSE /\ \E n \in scored : trials[n].value = best
             /\ \A n \in scored : best <= trials[n].value

(* When the budget is used up and no trial is pending, the stream ends,     *)
(* though concurrent tells check the budget outside their transactions; only *)
(* an interruption can take the call that would have ended it.              *)
BudgetCompletes ==
  (Cardinality(DOMAIN trials) = Trials /\ Pending = {}) ~> (ended \/ interrupted > 0)

(* Study.modify: an illegal lifecycle change is "a programmer invariant     *)
(* violation".  The handle's own operations never return one.               *)
TransitionsLegal == ~died

(* finalizeTrial "emits lifecycle events": once no call is under way, every *)
(* outcome in the history has had its event.                                *)
OutcomesAnnounced ==
  (\A c \in Clients : pc[c] = "idle") =>
    \A n \in DOMAIN trials : trials[n] \in Outcomes =>
      \E i \in DOMAIN mailbox : Terminal(i, n)
===============================================================================
