------------------------------ MODULE Recording -------------------------------
(***************************************************************************)
(* The strict run recordings of effect-study: the operations StudyStorage   *)
(* serialises over one backend (internal/recording.ts) and the single-file  *)
(* backend that commits one line per record (internal/fileSystemRecording.  *)
(* ts).  Every call takes the store's one-permit semaphore.  A write may    *)
(* fail, be interrupted, or be cut by a crash, and may then have left       *)
(* nothing, a partial line, or the whole line behind.                       *)
(***************************************************************************)
EXTENDS Naturals, Sequences, FiniteSets

CONSTANTS
  Clients,     \* the fibers that call the store
  Runs, Digests, RecordIds, Payloads,
  MtimeKnown,  \* whether the platform's stat reports a modification time
  MaxLines,    \* bound: no new call starts once the file has this many records
  None         \* no caller holds the permit; nothing is cached or requested

ASSUME RecordingAssumption ==
  /\ None \notin Clients
  /\ MtimeKnown \in BOOLEAN
  /\ MaxLines \in Nat

VARIABLES
  file,      \* the complete lines of the file, each a wire record
  torn,      \* whether bytes without a final newline follow them
  up,        \* whether a store service is running
  lock,      \* the caller that holds the permit
  cache,     \* the index of the file, with the stat it was made from, or None
  pc,        \* where each caller is in its call
  req,       \* the record each caller asks to commit
  staged,    \* the index the writing caller will cache once its write is known
  handles,   \* the recordings each caller has opened
  progress,  \* the state each caller has reduced from a run, as replay returns it
  acked      \* every receipt returned so far (history, for the properties)

vars ==
  <<file, torn, up, lock, cache, pc, req, staged, handles, progress, acked>>

-------------------------------------------------------------------------------
(* Wire records.  A request is the record it would commit: an append's      *)
(* expectedCursor is its cursor less one.  The state a checkpoint carries   *)
(* is the sequence of the identities reduced into it.                       *)

OpenedRecord == [tag : {"Opened"}, run : Runs, digest : Digests]

EventRecord ==
  [tag : {"Event"}, run : Runs, digest : Digests,
   id : RecordIds, cursor : Nat \ {0}, payload : Payloads]

Reduced == [through : Nat, state : Seq(RecordIds)]

CheckpointRecord ==
  [tag : {"Checkpoint"}, run : Runs, digest : Digests,
   through : Nat, state : Seq(RecordIds)]

ReplayRequest == [tag : {"Replay"}, run : Runs]

Wire == OpenedRecord \cup EventRecord \cup CheckpointRecord

(* The index of a file, kept as the sequence of the records accepted.       *)
Opens(s, r) == {i \in DOMAIN s : s[i].tag = "Opened" /\ s[i].run = r}

OpenedAs(s, r, d) == \E i \in Opens(s, r) : s[i].digest = d

EventsOf(s, r) == {i \in DOMAIN s : s[i].tag = "Event" /\ s[i].run = r}

Size(s, r) == Cardinality(EventsOf(s, r))

EventAt(s, r, c) == s[CHOOSE i \in EventsOf(s, r) : s[i].cursor = c]

Duplicate(s, w) == {i \in EventsOf(s, w.run) : s[i].id = w.id}

CheckpointsOf(s, r) ==
  {i \in DOMAIN s : s[i].tag = "Checkpoint" /\ s[i].run = r}

(* Variant for the mutation checks: identities are not remembered.          *)
AcceptableAgain(s, w) ==
  \/ w.tag = "Opened" /\ Opens(s, w.run) = {}
  \/ /\ w.tag = "Event" /\ OpenedAs(s, w.run, w.digest)
     /\ w.cursor = Size(s, w.run) + 1
  \/ /\ w.tag = "Checkpoint" /\ OpenedAs(s, w.run, w.digest)
     /\ w.through <= Size(s, w.run)

(* accept(): whether a record may follow the records of s.                  *)
Acceptable(s, w) ==
  \/ w.tag = "Opened" /\ Opens(s, w.run) = {}
  \/ /\ w.tag = "Event"
     /\ OpenedAs(s, w.run, w.digest)
     /\ w.cursor = Size(s, w.run) + 1
     /\ Duplicate(s, w) = {}
  \/ /\ w.tag = "Checkpoint"
     /\ OpenedAs(s, w.run, w.digest)
     /\ w.through <= Size(s, w.run)

(* Reading a file accepts its records one by one, each after the last.      *)
Retained(s) == \A i \in DOMAIN s : Acceptable(SubSeq(s, 1, i - 1), s[i])

-------------------------------------------------------------------------------
(* The backend's read: the cached index when the file's stat has not moved, *)
(* the file itself otherwise.  A file that does not end at a line boundary, *)
(* or one of whose records is not acceptable, cannot be read.               *)

Stamp == <<Len(file), torn>>

CacheHit == MtimeKnown /\ cache # None /\ cache.stamp = Stamp

(* Variant: the missing final newline goes unnoticed.                       *)
ReadableTorn == CacheHit \/ Retained(file)

Readable == CacheHit \/ (~torn /\ Retained(file))

Index == IF CacheHit THEN cache.records ELSE file

Exists == torn \/ file # <<>>

Refreshed ==
  IF Exists THEN [stamp |-> Stamp, records |-> Index] ELSE None

Cached == [stamp : Nat \X BOOLEAN, records : Seq(Wire)]

(* What the store already holds for a request, so that nothing is written:  *)
(* a run opened with the same definition, or the same event again.          *)
AlreadyDone(s, w) ==
  \/ w.tag = "Opened" /\ OpenedAs(s, w.run, w.digest)
  \/ /\ w.tag = "Event"
     /\ OpenedAs(s, w.run, w.digest)
     /\ \E i \in Duplicate(s, w) : s[i].payload = w.payload

(* Variant: the request is not checked against the records before it.       *)
ToWriteUnchecked(s, w) == ~AlreadyDone(s, w)

(* A request that has to be written.  All others are refused: a definition  *)
(* that differs, an identity with other content, a cursor that is not the   *)
(* tail, a checkpoint beyond the tail.                                      *)
ToWrite(s, w) == ~AlreadyDone(s, w) /\ Acceptable(s, w)

Receipt(e) ==
  [run |-> e.run, id |-> e.id, cursor |-> e.cursor, payload |-> e.payload]

-------------------------------------------------------------------------------
Init ==
  /\ file = <<>> /\ torn = FALSE
  /\ up = FALSE /\ lock = None /\ cache = None
  /\ pc = [c \in Clients |-> "idle"]
  /\ req = [c \in Clients |-> None]
  /\ staged = [c \in Clients |-> None]
  /\ handles = [c \in Clients |-> {}]
  /\ progress = [c \in Clients |-> [r \in Runs |-> [through |-> 0, state |-> <<>>]]]
  /\ acked = {}

(* makeFileSystem: a service starts only over a file it can read.           *)
Start ==
  /\ ~up /\ Readable
  /\ up' = TRUE
  /\ cache' = Refreshed
  /\ UNCHANGED <<file, torn, lock, pc, req, staged, handles, progress, acked>>

(* A caller makes a call and queues for the permit.  Only open needs no     *)
(* handle; a checkpoint carries a state its caller has reduced.             *)
Request(c, w) ==
  /\ up /\ pc[c] = "idle" /\ Len(file) < MaxLines
  /\ w.tag # "Opened" => <<w.run, w.digest>> \in handles[c]
  /\ w.tag = "Checkpoint" =>
       w.through = progress[c][w.run].through /\ w.state = progress[c][w.run].state
  /\ pc' = [pc EXCEPT ![c] = "waiting"]
  /\ req' = [req EXCEPT ![c] = w]
  /\ UNCHANGED <<file, torn, up, lock, cache, staged, handles, progress, acked>>

(* Variant: the permit is not given back.                                   *)
ReturnHolding(c) ==
  /\ pc' = [pc EXCEPT ![c] = "idle"]
  /\ req' = [req EXCEPT ![c] = None]
  /\ staged' = [staged EXCEPT ![c] = None]
  /\ UNCHANGED lock

(* The call of c ends and gives the permit back if it had it.               *)
Return(c) ==
  /\ pc' = [pc EXCEPT ![c] = "idle"]
  /\ req' = [req EXCEPT ![c] = None]
  /\ staged' = [staged EXCEPT ![c] = None]
  /\ lock' = IF lock = c THEN None ELSE lock

(* What a successful call gives its caller: a handle or a receipt.          *)
Grant(c, w, e) ==
  /\ handles' = IF w.tag = "Opened"
                THEN [handles EXCEPT ![c] = @ \cup {<<w.run, w.digest>>}]
                ELSE handles
  /\ acked' = IF w.tag = "Event" THEN acked \cup {Receipt(e)} ELSE acked

(* With the permit: nothing to write, the original receipt is returned.     *)
ReturnOriginal(c) ==
  /\ pc[c] = "waiting" /\ lock = None
  /\ Readable /\ AlreadyDone(Index, req[c])
  /\ \E i \in DOMAIN Index :
       /\ req[c].tag = "Event" => i \in Duplicate(Index, req[c])
       /\ Grant(c, req[c], Index[i])
  /\ cache' = Refreshed
  /\ Return(c)
  /\ UNCHANGED <<file, torn, up, progress>>

(* With the permit: the file cannot be read, or the request is refused.     *)
Refuse(c) ==
  /\ pc[c] = "waiting" /\ lock = None
  /\ Readable => ~AlreadyDone(Index, req[c]) /\ ~ToWrite(Index, req[c])
  /\ cache' = IF Readable THEN Refreshed ELSE cache
  /\ Return(c)
  /\ UNCHANGED <<file, torn, up, handles, progress, acked>>

(* Variant: the index to be cached does not contain the record.             *)
BeginWriteUnapplied(c) ==
  /\ pc[c] = "waiting" /\ lock = None
  /\ Readable /\ ToWrite(Index, req[c])
  /\ lock' = c
  /\ pc' = [pc EXCEPT ![c] = "writing"]
  /\ staged' = [staged EXCEPT ![c] = Index]
  /\ cache' = None
  /\ UNCHANGED <<file, torn, up, req, handles, progress, acked>>

(* With the permit: the record is accepted; the cache is dropped before the *)
(* write, so that a failed or interrupted append leaves none behind.        *)
BeginWrite(c) ==
  /\ pc[c] = "waiting" /\ lock = None
  /\ Readable /\ ToWrite(Index, req[c])
  /\ lock' = c
  /\ pc' = [pc EXCEPT ![c] = "writing"]
  /\ staged' = [staged EXCEPT ![c] = Append(Index, req[c])]
  /\ cache' = None
  /\ UNCHANGED <<file, torn, up, req, handles, progress, acked>>

Write(c) ==
  /\ pc[c] = "writing"
  /\ file' = Append(file, req[c])
  /\ pc' = [pc EXCEPT ![c] = "written"]
  /\ UNCHANGED <<torn, up, lock, cache, req, staged, handles, progress, acked>>

(* What a write that does not return may have left in the file.             *)
PartialWrite(w) ==
  \/ UNCHANGED <<file, torn>>
  \/ torn' = TRUE /\ UNCHANGED file
  \/ file' = Append(file, w) /\ UNCHANGED torn

(* Variant: a write that fails is reported as a success.                    *)
WriteFailsQuietly(c) ==
  /\ pc[c] = "writing"
  /\ PartialWrite(req[c])
  /\ Grant(c, req[c], req[c])
  /\ Return(c)
  /\ UNCHANGED <<up, cache, progress>>

(* The write fails or its caller is interrupted: the caller cannot tell.    *)
WriteFails(c) ==
  /\ pc[c] = "writing"
  /\ PartialWrite(req[c])
  /\ Return(c)
  /\ UNCHANGED <<up, cache, handles, progress, acked>>

(* The stat after the write: the index is cached and the call succeeds.     *)
Settle(c) ==
  /\ pc[c] = "written"
  /\ cache' = [stamp |-> Stamp, records |-> staged[c]]
  /\ Grant(c, req[c], req[c])
  /\ Return(c)
  /\ UNCHANGED <<file, torn, up, progress>>

(* The stat fails, or the caller is interrupted: committed, not known so.   *)
StatFails(c) ==
  /\ pc[c] = "written"
  /\ Return(c)
  /\ UNCHANGED <<file, torn, up, cache, handles, progress, acked>>

(* A caller interrupted while it waits for the permit.                      *)
Abandon(c) ==
  /\ pc[c] \in {"waiting", "loaded"}
  /\ Return(c)
  /\ UNCHANGED <<file, torn, up, cache, handles, progress, acked>>

-------------------------------------------------------------------------------
(* replay: the latest checkpoint is loaded and the tail after it is read in *)
(* two turns of the permit, with other calls between them.                  *)

LatestCheckpoint(s, r) ==
  LET last == CHOOSE i \in CheckpointsOf(s, r) :
                \A j \in CheckpointsOf(s, r) : j <= i
  IN  IF CheckpointsOf(s, r) = {} THEN [through |-> 0, state |-> <<>>]
      ELSE [through |-> s[last].through, state |-> s[last].state]

(* Variant: the tail is read from the start of the run.                     *)
ReduceTailAgain(s, r, from) ==
  [through |-> Size(s, r),
   state |-> from.state \o [k \in 1..Size(s, r) |-> EventAt(s, r, k).id]]

ReduceTail(s, r, from) ==
  [through |-> Size(s, r),
   state |-> from.state \o
     [k \in 1..(Size(s, r) - from.through) |-> EventAt(s, r, from.through + k).id]]

LoadCheckpoint(c, r) ==
  /\ up /\ pc[c] = "idle" /\ lock = None
  /\ \E d \in Digests : <<r, d>> \in handles[c] /\ OpenedAs(Index, r, d)
  /\ Readable
  /\ cache' = Refreshed
  /\ pc' = [pc EXCEPT ![c] = "loaded"]
  /\ req' = [req EXCEPT ![c] = [tag |-> "Replay", run |-> r]]
  /\ progress' = [progress EXCEPT ![c][r] = LatestCheckpoint(Index, r)]
  /\ UNCHANGED <<file, torn, up, lock, staged, handles, acked>>

(* Fails, leaving the loaded state, when the file cannot be read or the     *)
(* boundary lies beyond the tail.                                           *)
ReadTail(c) ==
  LET r == req[c].run IN
  /\ pc[c] = "loaded" /\ lock = None
  /\ cache' = IF Readable THEN Refreshed ELSE cache
  /\ progress' =
       IF Readable /\ progress[c][r].through <= Size(Index, r)
       THEN [progress EXCEPT ![c][r] = ReduceTail(Index, r, progress[c][r])]
       ELSE progress
  /\ Return(c)
  /\ UNCHANGED <<file, torn, up, handles, acked>>

-------------------------------------------------------------------------------
(* The process dies: a write in flight may have left anything behind.       *)
Crash ==
  /\ up
  /\ IF \E c \in Clients : pc[c] = "writing"
     THEN \E c \in Clients : pc[c] = "writing" /\ PartialWrite(req[c])
     ELSE UNCHANGED <<file, torn>>
  /\ up' = FALSE /\ lock' = None /\ cache' = None
  /\ pc' = [c \in Clients |-> "idle"]
  /\ req' = [c \in Clients |-> None]
  /\ staged' = [c \in Clients |-> None]
  /\ handles' = [c \in Clients |-> {}]
  /\ progress' = [c \in Clients |-> [r \in Runs |-> [through |-> 0, state |-> <<>>]]]
  /\ UNCHANGED acked

RequestOpen(c) == \E r \in Runs, d \in Digests :
  Request(c, [tag |-> "Opened", run |-> r, digest |-> d])

RequestAppend(c) ==
  \E h \in handles[c], i \in RecordIds, p \in Payloads, e \in 0..MaxLines :
    Request(c, [tag |-> "Event", run |-> h[1], digest |-> h[2],
                id |-> i, cursor |-> e + 1, payload |-> p])

RequestCheckpoint(c) == \E h \in handles[c] :
  Request(c, [tag |-> "Checkpoint", run |-> h[1], digest |-> h[2],
              through |-> progress[c][h[1]].through,
              state |-> progress[c][h[1]].state])

Replay(c) == (\E r \in Runs : LoadCheckpoint(c, r)) \/ ReadTail(c)

Call(c) ==
  \/ RequestOpen(c) \/ RequestAppend(c) \/ RequestCheckpoint(c)
  \/ ReturnOriginal(c) \/ Refuse(c)
  \/ BeginWrite(c) \/ Write(c) \/ WriteFails(c) \/ Settle(c) \/ StatFails(c)
  \/ Abandon(c) \/ Replay(c)

Next == Start \/ Crash \/ \E c \in Clients : Call(c)

Spec == Init /\ [][Next]_vars

(* The permit is first come, first served, and a caller that holds it does  *)
(* not stop: its write and its stat return, one way or the other.           *)
Fairness ==
  \A c \in Clients :
    /\ SF_vars(ReturnOriginal(c) \/ Refuse(c) \/ BeginWrite(c))
    /\ SF_vars(ReadTail(c))
    /\ WF_vars(Write(c) \/ WriteFails(c))
    /\ WF_vars(Settle(c) \/ StatFails(c))

FairSpec == Spec /\ Fairness

-------------------------------------------------------------------------------
(* Types.                                                                   *)
TypeOK ==
  /\ file \in Seq(Wire) /\ torn \in BOOLEAN
  /\ up \in BOOLEAN /\ lock \in Clients \cup {None}
  /\ cache = None \/ cache \in Cached
  /\ pc \in [Clients -> {"idle", "waiting", "writing", "written", "loaded"}]
  /\ req \in [Clients -> Wire \cup ReplayRequest \cup {None}]
  /\ staged \in [Clients -> Seq(Wire) \cup {None}]
  /\ handles \in [Clients -> SUBSET (Runs \X Digests)]
  /\ progress \in [Clients -> [Runs -> Reduced]]
  /\ acked \in SUBSET [run : Runs, id : RecordIds, cursor : Nat \ {0}, payload : Payloads]

(* Whatever sequence of failed, repeated and interrupted writes made it,    *)
(* every complete line of the file is one the strict reader accepts, so     *)
(* only a partial last line can make a recording unreadable.                *)
RecordsReadable == Retained(file)

(* A cache that the stat lets read use is the index of the file itself.     *)
CacheCoherent == CacheHit => ~torn /\ cache.records = file

(* A receipt, once returned, names an event of the file with that identity, *)
(* cursor and content: after lost acknowledgments, retries and restarts.    *)
AckedDurable ==
  \A a \in acked : \E i \in DOMAIN file : file[i].tag = "Event" /\ Receipt(file[i]) = a

(* A state obtained through replay is the reduction of exactly the first    *)
(* `through' events, each once and in order, though the checkpoint it       *)
(* starts from and the tail are read apart and checkpoints may regress.     *)
Exact(s, r, p) ==
  /\ p.through <= Size(s, r)
  /\ p.state = [k \in 1..p.through |-> EventAt(s, r, k).id]

ReplayExact == \A c \in Clients, r \in Runs : Exact(file, r, progress[c][r])

(* A recording that ends in a partial line is neither repaired nor appended *)
(* to by any call of any later service.                                     *)
DamageIsFinal == [][torn => UNCHANGED <<file, torn>>]_vars

(* The events of the file and the receipts behave as an EventLog.           *)
Committed == {Receipt(file[i]) : i \in {j \in DOMAIN file : file[j].tag = "Event"}}

Log == INSTANCE EventLog WITH committed <- Committed
ImplementsEventLog == Log!Spec

(* Every call returns to its caller: whichever way a write goes, the permit *)
(* is given back to those who wait for it.                                  *)
CallsReturn == \A c \in Clients : pc[c] # "idle" ~> pc[c] = "idle"
===============================================================================
